---- MODULE Spec2Model ----
(***************************************************************************)
(* State-machine model of the contextual validation pipeline               *)
(* (runnables/run_ctx_agent.py), its scoring client                        *)
(* (src/workflow/ctx_agent.py) and its store (src/db/database.py,          *)
(* src/db/models.py).                                                      *)
(*                                                                         *)
(* Scores are floats in the code; the model counts them in hundredths      *)
(* (0.80 is 80, 1.0 is 100).  Time is counted in whole seconds.  The code  *)
(* only ever reads the clock as a difference (time.time() minus the time   *)
(* of the last request), so the model keeps the differences, saturated at  *)
(* SatTime, instead of the absolute clock.                                 *)
(*                                                                         *)
(* SpecParse applies _parse_agent_response to reply texts, modelled as     *)
(* sequences of tokens (fences, whitespace, prose, JSON values).           *)
(* SpecCrawl is the tree crawl of src/workflow/sso_weshare_scraper.py:     *)
(* the li elements of the page tree as the browser shows them, the         *)
(* expansion of the tree into (url, title) pairs, the scraping of each     *)
(* page and the writing of metadata.json.                                  *)
(* SpecUrls is scrape_urls of the same scraper.  SpecSearch is the         *)
(* last-modified search under its timeout, SpecDb the read back of a       *)
(* stored row, SpecNormalize the clean-up of html_to_markdown and          *)
(* SpecCheck validate_metadata_structure, each called on its own.          *)
(* SpecFaulty is a validation run in a directory where the progress file   *)
(* may not be writable.                                                    *)
(***************************************************************************)
EXTENDS Integers, Sequences, FiniteSets, TLC

VARIABLES
    metadata,         \* ContextualValidator.metadata: the manifest, a sequence of pages
    store,            \* table validated_urls: a sequence of rows
    db_clock,         \* the store's clock (func.now() / datetime.now()), a logical time
    progress_file,    \* validation_progress.json
    env,              \* what the surroundings may do in this run (fixed by Init)
    caller,           \* "none", "main" or "direct": who called validate_all_pages
    pc,               \* position of the control flow
    start_index,      \* validate_all_pages argument
    batch_size,       \* validate_all_pages argument, an optional int
    i,                \* enumerate() index of validate_all_pages' loop
    attempt,          \* loop variable of _query_with_retry
    response_data,    \* value returned by _query_with_retry
    results,          \* the results dict of validate_all_pages
    scores,           \* (relevance_score, currency_score) of the record being handled
    time_since_last,  \* time.time() - self.last_request_time, saturated
    since_send,       \* time since the last outbound request of the process, saturated
    gap,              \* time between the last two outbound requests, saturated at
                      \* REQUEST_DELAY (-1: fewer than two requests so far)
    sleeps,           \* backoff sleeps of the running _query_with_retry call
    outcomes,         \* what each request of the running _query_with_retry call got
    handled,          \* manifest indices whose handling was started, in order
    parse_arg,        \* _parse_agent_response called on its own: the argument
    parse_ret,        \* _parse_agent_response called on its own: how the call ended
    site,             \* the crawled site: its page tree and what its pages do (fixed by Init)
    shown,            \* the page tree in the browser: the nodes whose child list is shown
    crawl_pc,         \* position of scrape_hierarchical_pages
    page_data,        \* the (href, title) pairs _expand_and_scrape returned
    page_i,           \* pages of page_data the loop of scrape_hierarchical_pages has taken
    attempted,        \* per page taken: what the page did and whether a record was returned
    scraped_content,  \* the records collected by scrape_hierarchical_pages
    current_id,       \* WeShareMSSOScraper.current_id
    metadata_json,    \* the file metadata.json in the output directory
    files,            \* the page files written to the output directory, in order
    search,           \* extract_last_modified on the page at hand: how long it runs and
                      \* what it finds (fixed by Init)
    future,           \* the search submitted to the executor: "none", "running", "done"
    lm_pc,            \* position of _extract_last_modified_with_timeout
    lm_elapsed,       \* seconds since the search was submitted
    lm_ret,           \* how future.result ended, and the value that is returned
    db_arg,           \* test_database: the row handed to add_validated_url (fixed by Init)
    db_pc,            \* test_database: position
    url_data,         \* test_database: what add_validated_url returned
    retrieved,        \* test_database: what get_validated_url returned
    title_read,       \* test_database: how the read of retrieved.title ended
    md_arg,           \* html_to_markdown: the text that markdownify made of the page
    md_ret,           \* html_to_markdown: the text returned
    vm_arg,           \* validate_metadata_structure: the content of the metadata file
    vm_ret            \* validate_metadata_structure: the value returned

\* The variables of the validation run
validatorVars ==
    << metadata, store, db_clock, progress_file, env, caller, pc, start_index,
       batch_size, i, attempt, response_data, results, scores, time_since_last,
       since_send, gap, sleeps, outcomes, handled >>

\* The variables of a call of _parse_agent_response on its own
parserVars == << parse_arg, parse_ret >>

\* The variables of the crawl
crawlerVars ==
    << site, shown, crawl_pc, page_data, page_i, attempted, scraped_content,
       current_id, metadata_json, files >>

\* The variables of a call of _extract_last_modified_with_timeout
searchVars == << search, future, lm_pc, lm_elapsed, lm_ret >>

\* The variables of the store's test
dbVars == << db_arg, db_pc, url_data, retrieved, title_read >>

\* The variables of a call of html_to_markdown
normalizerVars == << md_arg, md_ret >>

\* The variables of a call of validate_metadata_structure
checkerVars == << vm_arg, vm_ret >>

\* The variables of the functions that are called on their own
toolVars == << searchVars, dbVars, normalizerVars, checkerVars >>

vars == << validatorVars, parserVars, crawlerVars, toolVars >>

-----------------------------------------------------------------------------
(* Bounds of the model *)

MaxPages == 3

LongPages == 10

SatTime == 2

\* The longest run of white space around the payload of a reply text
MaxPad == 1

\* The most nodes of a page tree
MaxNodes == 3

\* The length of the manifest of a run over a store that holds rows already
SeededPages == 2

\* The most urls handed to scrape_urls
MaxUrls == 2

\* The most pieces of a text handed to the clean-up steps of html_to_markdown
MaxPieces == 5

\* The most entries of a metadata file handed to validate_metadata_structure
MaxEntries == 2

\* The longest search for the last-modified pattern that ends, in seconds
MaxSearch == 5

-----------------------------------------------------------------------------
(* Configuration, run_ctx_agent.py lines 21-28 *)

RELEVANCE_THRESHOLD == 80

CURRENCY_THRESHOLD == 100

REQUEST_DELAY == 2

MAX_RETRIES == 3

BACKOFF_FACTOR == 2

\* validate_all_pages writes a checkpoint when (i + 1) % 10 == 0
CHECKPOINT_EVERY == 10

-----------------------------------------------------------------------------
(* Optional values *)

None == [some |-> FALSE, v |-> 0]

Some(x) == [some |-> TRUE, v |-> x]

Min(a, b) == IF a < b THEN a ELSE b

RECURSIVE Pow(_, _)
Pow(b, e) == IF e = 0 THEN 1 ELSE b * Pow(b, e - 1)

Sat(t) == Min(t, SatTime)

-----------------------------------------------------------------------------
(* The manifest *)

UrlPattern == << "u1", "u1", "", "u2" >>

\* The page at manifest position j (1-based); pages 1 and 2 share a url, page 3 has none.
PageAt(j) ==
    [ id      |-> j,
      title   |-> j,
      content |-> j,
      formatted_date |-> j,
      url     |-> UrlPattern[((j - 1) % Len(UrlPattern)) + 1] ]

Manifest(n) == [ j \in 1..n |-> PageAt(j) ]

\* hashlib.sha256(content).hexdigest(): distinct contents give distinct digests
GenerateContentHash(content) == << "sha256", content >>

-----------------------------------------------------------------------------
(* The scoring endpoint and its client, ctx_agent.py and run_ctx_agent.py *)

\* The text of a reply is a sequence of tokens: the pieces of the string that the
\* parse step tells apart.  A token has a type t, and a word: the substring
\* "message", "content" or "response" when the piece contains one, else "".
\*   "fence_json", "fence"   three backticks with and without the tag json after them
\*   "ws"               white space
\*   "object"           a JSON object; rel and cur are the values of its keys
\*                      relevance_score and currency_score, word comes from its
\*                      other keys and string values
\*   "array", "number", "string", "null"   a JSON value that is not an object
\*   "prose"            text that is not JSON
\* The value of a score key: "missing" (no such key), "null", "num" (a JSON number,
\* v in hundredths), "numstr" (a JSON string that float() reads as the number v),
\* "badstr" (a string float() rejects), "list" (a JSON array).
ScoreValue(k, v) == [ k |-> k, v |-> v ]

Missing == ScoreValue("missing", 0)

Num(v) == ScoreValue("num", v)

Token(t, word) == [ t |-> t, rel |-> Missing, cur |-> Missing, word |-> word ]

FenceJson == Token("fence_json", "")

Fence == Token("fence", "")

Ws == Token("ws", "")

Prose(word) == Token("prose", word)

JsonObject(rel, cur, word) == [ t |-> "object", rel |-> rel, cur |-> cur, word |-> word ]

JsonTypes == { "object", "array", "number", "string", "null" }

\* A reply body's message content as the validation run meets it: a bare JSON object
\* with the two score fields (absent, or a number in hundredths), or text that is
\* not JSON.
Content(isJson, rel, cur) ==
    IF isJson
    THEN << JsonObject(IF rel.some THEN Num(rel.v) ELSE Missing,
                       IF cur.some THEN Num(cur.v) ELSE Missing, "") >>
    ELSE << Prose("") >>

Body(hasMessage, content) == [ has_message |-> hasMessage, content |-> content ]

NoBody == Body(FALSE, Content(FALSE, None, None))

ScoreBody(rel, cur) == Body(TRUE, Content(TRUE, rel, cur))

\* What one HTTP exchange can end in: a response with a status code, or no response.
HttpResponse(code, body) == [ kind |-> "response", code |-> code, body |-> body ]

NoResponse(kind) == [ kind |-> kind, code |-> 0, body |-> NoBody ]

ScoredReplies ==
    { HttpResponse(200, ScoreBody(Some(80), Some(100))),
      HttpResponse(200, ScoreBody(Some(79), Some(100))),
      HttpResponse(200, ScoreBody(Some(95), Some(99))),
      HttpResponse(200, ScoreBody(Some(0), Some(100))) }

UnscoredReplies ==
    { HttpResponse(200, ScoreBody(None, Some(100))),
      HttpResponse(200, ScoreBody(Some(101), Some(100))),
      HttpResponse(200, ScoreBody(Some(80), Some(-1))),
      HttpResponse(200, Body(TRUE, Content(FALSE, None, None))),
      HttpResponse(200, NoBody) }

ErrorStatuses == { 401, 404, 422, 429, 500 }

AllOutcomes ==
    ScoredReplies \cup UnscoredReplies
      \cup { HttpResponse(c, NoBody) : c \in ErrorStatuses \cup { 204 } }
      \cup { NoResponse("timeout"), NoResponse("connection") }

LongOutcomes ==
    { HttpResponse(200, ScoreBody(Some(80), Some(100))),
      HttpResponse(401, NoBody),
      HttpResponse(429, NoBody) }

\* A service that answers with scores that pass or fail the thresholds
ScoredOutcomes ==
    { HttpResponse(200, ScoreBody(Some(80), Some(100))),
      HttpResponse(200, ScoreBody(Some(70), Some(100))) }

\* The tag of an outcome kept in the log of a call: the status code, 0 for no response
OutcomeTag(o) == o.code

NoData == [ some |-> FALSE, body |-> NoBody ]

Data(body) == [ some |-> TRUE, body |-> body ]

\* query_contextual_agent: what the call does for an outcome of requests.post
QueryContextualAgent(o) ==
    IF o.kind # "response"
    THEN [ kind |-> "exception", code |-> 0, value |-> NoData ]
    ELSE IF o.code = 200
    THEN [ kind |-> "return", code |-> 200, value |-> Data(o.body) ]
    ELSE IF o.code >= 400 /\ o.code < 600
    THEN [ kind |-> "http_error", code |-> o.code, value |-> NoData ]
    ELSE [ kind |-> "return", code |-> o.code, value |-> NoData ]

\* Mutant of BackoffWait: the wait does not grow with the attempt
BackoffWait_Constant(a) == REQUEST_DELAY

\* wait_time = REQUEST_DELAY * (BACKOFF_FACTOR ** attempt)
BackoffWait(a) == REQUEST_DELAY * Pow(BACKOFF_FACTOR, a)

\* Mutant of RetryStep: every HTTP error is handled like 429
RetryStep_RetryAll(q, a) ==
    IF q.kind = "return"
    THEN [ next |-> "return", sleep |-> 0, value |-> q.value ]
    ELSE IF q.kind = "http_error"
    THEN [ next  |-> IF a + 1 < MAX_RETRIES THEN "retry" ELSE "fail",
           sleep |-> BackoffWait(a), value |-> NoData ]
    ELSE IF a < MAX_RETRIES - 1
         THEN [ next |-> "retry", sleep |-> BackoffWait(a), value |-> NoData ]
         ELSE [ next |-> "fail", sleep |-> 0, value |-> NoData ]

\* Mutant of RetryStep: the attempts are bounded one too high
RetryStep_OneMore(q, a) ==
    IF q.kind = "return"
    THEN [ next |-> "return", sleep |-> 0, value |-> q.value ]
    ELSE IF q.kind = "http_error"
    THEN IF q.code = 429
         THEN [ next  |-> IF a + 1 <= MAX_RETRIES THEN "retry" ELSE "fail",
                sleep |-> BackoffWait(a), value |-> NoData ]
         ELSE [ next |-> "fail", sleep |-> 0, value |-> NoData ]
    ELSE IF a <= MAX_RETRIES - 1
         THEN [ next |-> "retry", sleep |-> BackoffWait(a), value |-> NoData ]
         ELSE [ next |-> "fail", sleep |-> 0, value |-> NoData ]

\* One pass of the loop body of _query_with_retry after the request of 0-based
\* attempt a ended as q: return the data, sleep and retry, or give up.
RetryStep(q, a) ==
    IF q.kind = "return"
    THEN [ next |-> "return", sleep |-> 0, value |-> q.value ]
    ELSE IF q.kind = "http_error"
    THEN IF q.code = 429
         THEN [ next  |-> IF a + 1 < MAX_RETRIES THEN "retry" ELSE "fail",
                sleep |-> BackoffWait(a), value |-> NoData ]
         ELSE [ next |-> "fail", sleep |-> 0, value |-> NoData ]
    ELSE IF a < MAX_RETRIES - 1
         THEN [ next |-> "retry", sleep |-> BackoffWait(a), value |-> NoData ]
         ELSE [ next |-> "fail", sleep |-> 0, value |-> NoData ]

\* _rate_limit_delay: how long it sleeps before the request
RateLimitSleep(tsl) == IF tsl < REQUEST_DELAY THEN REQUEST_DELAY - tsl ELSE 0

-----------------------------------------------------------------------------
(* _parse_agent_response, run_ctx_agent.py lines 131-200 *)

HasToken(s, t) == \E k \in DOMAIN s : s[k].t = t

\* word in s, for a str s: a substring test
HasWord(s, w) == \E k \in DOMAIN s : s[k].word = w

FirstToken(s, t) == CHOOSE k \in DOMAIN s : s[k].t = t /\ \A m \in 1..(k - 1) : s[m].t # t

\* s.split(t)[0]: the text before the first t, all of s when it has none
SplitHead(s, t) == IF HasToken(s, t) THEN SubSeq(s, 1, FirstToken(s, t) - 1) ELSE s

\* s.split(t)[1], for s that contains t: the text between the first t and the next
SplitSecond(s, t) == SplitHead(SubSeq(s, FirstToken(s, t) + 1, Len(s)), t)

RECURSIVE LStrip(_)
LStrip(s) == IF Len(s) > 0 /\ s[1].t = "ws" THEN LStrip(Tail(s)) ELSE s

RECURSIVE RStrip(_)
RStrip(s) ==
    IF Len(s) > 0 /\ s[Len(s)].t = "ws" THEN RStrip(SubSeq(s, 1, Len(s) - 1)) ELSE s

\* s.strip()
Strip(s) == RStrip(LStrip(s))

\* lines 164-167: the text inside the first code fence, when there is a fence
StripFence(s) ==
    IF HasToken(s, "fence_json")
    THEN Strip(SplitHead(SplitSecond(s, "fence_json"), "fence"))
    ELSE IF HasToken(s, "fence")
    THEN Strip(SplitHead(SplitSecond(s, "fence"), "fence"))
    ELSE s

\* json.loads(s): one JSON value, white space around it allowed; anything else
\* raises JSONDecodeError
JsonLoads(s) ==
    LET core == Strip(s)
    IN  IF Len(core) = 1 /\ core[1].t \in JsonTypes
        THEN [ ok |-> TRUE, value |-> core[1] ]
        ELSE [ ok |-> FALSE, value |-> Ws ]

\* data.get(key), then float() of a value that is not None (lines 175-180, 185-186)
ToFloat(x) ==
    IF x.k \in { "missing", "null" } THEN [ exc |-> "none", val |-> None ]
    ELSE IF x.k \in { "num", "numstr" } THEN [ exc |-> "none", val |-> Some(x.v) ]
    ELSE IF x.k = "badstr" THEN [ exc |-> "ValueError", val |-> None ]
    ELSE [ exc |-> "TypeError", val |-> None ]

\* Mutant of ParseScore: a number outside [0, 1] is clamped into the range
ParseScore_Clamp(x) ==
    IF ~x.some THEN None ELSE IF x.v < 0 THEN Some(0) ELSE IF x.v > 100 THEN Some(100) ELSE x

\* One score field of _parse_agent_response: absent stays absent, a number outside
\* [0, 1] is dropped
ParseScore(x) == IF x.some /\ x.v >= 0 /\ x.v <= 100 THEN x ELSE None

\* How a call of _parse_agent_response ends: it returns a pair of optional scores
\* (caught: the exception its except clauses turned into (None, None), "" for none),
\* or an exception leaves it
Returns(rel, cur, caught) ==
    [ raised |-> "", caught |-> caught, value |-> << rel, cur >> ]

Raises(exc) == [ raised |-> exc, caught |-> "", value |-> << None, None >> ]

\* _parse_agent_response(response_data) for a str argument
ParseAgentResponse(s) ==
    IF Len(s) = 0
    THEN Returns(None, None, "")
    ELSE IF HasWord(s, "message") \/ HasWord(s, "content") \/ HasWord(s, "response")
    THEN \* response_data['message'] on a str: TypeError, caught at line 198
         Returns(None, None, "TypeError")
    ELSE LET data == JsonLoads(StripFence(s))
         IN  IF ~data.ok
             THEN Returns(None, None, "JSONDecodeError")
             ELSE IF data.value.t # "object"
             THEN \* data.get on a list, a number, a str or None
                  Raises("AttributeError")
             ELSE LET rel == ToFloat(data.value.rel)
                      cur == ToFloat(data.value.cur)
                  IN  IF rel.exc # "none" THEN Returns(None, None, rel.exc)
                      ELSE IF cur.exc # "none" THEN Returns(None, None, cur.exc)
                      ELSE Returns(ParseScore(rel.val), ParseScore(cur.val), "")

\* Mutant of MeetsThresholds: the relevance test is strict
MeetsThresholds_Strict(rel, cur) == rel > RELEVANCE_THRESHOLD /\ cur >= CURRENCY_THRESHOLD

\* relevance_score >= RELEVANCE_THRESHOLD and currency_score >= CURRENCY_THRESHOLD
MeetsThresholds(rel, cur) == rel >= RELEVANCE_THRESHOLD /\ cur >= CURRENCY_THRESHOLD

-----------------------------------------------------------------------------
(* The store, database.py and models.py *)

HasUrl(st, url) == \E k \in 1..Len(st) : st[k].url = url

FirstWithUrl(st, url) == CHOOSE k \in 1..Len(st) :
    st[k].url = url /\ \A m \in 1..(k - 1) : st[m].url # url

Row(page, rel, cur, now) ==
    [ url                  |-> page.url,
      title                |-> page.title,
      content_hash         |-> GenerateContentHash(page.content),
      last_modified        |-> page.formatted_date,
      validation_timestamp |-> now,
      ctx_relevance_score  |-> rel,
      ctx_currency_score   |-> cur,
      page_metadata        |-> page.id ]

\* Mutant of AddValidatedUrl: the column url is not unique
AddValidatedUrl_NoUnique(st, row, fault) ==
    IF fault
    THEN [ result |-> FALSE, store |-> st ]
    ELSE [ result |-> TRUE, store |-> Append(st, row) ]

\* DatabaseManager.add_validated_url: the column url is unique, so the insert of a
\* url the table holds raises IntegrityError and the method returns None
AddValidatedUrl(st, row, fault) ==
    IF fault \/ HasUrl(st, row.url)
    THEN [ result |-> FALSE, store |-> st ]
    ELSE [ result |-> TRUE, store |-> Append(st, row) ]

\* Mutant of UpdateExisting: the first row of the table is updated, whatever its url
UpdateExisting_First(st, row, fault) ==
    IF fault \/ ~HasUrl(st, row.url)
    THEN [ result |-> FALSE, store |-> st ]
    ELSE [ result |-> TRUE, store |-> [ st EXCEPT ![1] = row ] ]

\* The update branch of _save_to_database
UpdateExisting(st, row, fault) ==
    IF fault \/ ~HasUrl(st, row.url)
    THEN [ result |-> FALSE, store |-> st ]
    ELSE [ result |-> TRUE, store |-> [ st EXCEPT ![FirstWithUrl(st, row.url)] = row ] ]

\* _save_to_database: insert, else update the row of the url
SaveToDatabase(st, page, rel, cur, now, fault1, fault2) ==
    IF page.url = ""
    THEN [ result |-> FALSE, store |-> st ]
    ELSE LET added == AddValidatedUrl(st, Row(page, rel, cur, now), fault1)
         IN  IF added.result
             THEN added
             ELSE UpdateExisting(st, Row(page, rel, cur, now), fault2)

-----------------------------------------------------------------------------
(* validate_all_pages *)

\* results = {'processed': 0, ..., 'skipped': start_index, 'details': []}
NewResults(k) ==
    [ processed |-> 0, validated |-> 0, saved |-> 0, errors |-> 0,
      skipped |-> k, details |-> << >> ]

\* len(self.metadata[start_index:]), then [:batch_size] when batch_size is truthy
TotalPages(n, k, b) ==
    LET rest == IF k < n THEN n - k ELSE 0
    IN  IF b.some /\ b.v # 0 THEN Min(rest, b.v) ELSE rest

NoFile == [ exists |-> FALSE, next_index |-> 0, results |-> NewResults(0), fresh |-> FALSE ]

\* _save_progress
SaveProgress(res, next) ==
    [ exists |-> TRUE, next_index |-> next, results |-> res, fresh |-> TRUE ]

Detail(index, page, rel, cur) ==
    [ index |-> index, title |-> page.title, id |-> page.id,
      relevance_score |-> rel, currency_score |-> cur,
      validated |-> MeetsThresholds(rel, cur) ]

current_index == start_index + i

current_page == metadata[current_index + 1]

Terminal == { "done", "interrupted", "killed", "exit" }

\* The positions inside the try block of the loop body (lines 293-346)
InTry == { "rate_limit", "await", "check_response", "save", "details" }

\* The positions of the loop outside the try block (lines 285-291)
OutsideTry == { "loop", "pre_try" }

\* The positions where the process waits for something outside it
Blocking == { "main_setup", "await", "save" }

\* time.sleep(d), and time passing: both clocks advance
Advance(t, d) == IF t < 0 THEN t ELSE Sat(t + d)

-----------------------------------------------------------------------------
(* Initial states *)

InitCommon ==
    /\ db_clock = 0
    /\ caller = "none"
    /\ pc = "start"
    /\ start_index = 0
    /\ batch_size = None
    /\ i = 0
    /\ attempt = 0
    /\ response_data = NoData
    /\ results = NewResults(0)
    /\ scores = << None, None >>
    /\ time_since_last = SatTime      \* self.last_request_time = 0
    /\ since_send = -1
    /\ gap = -1
    /\ sleeps = << >>
    /\ outcomes = << >>
    /\ handled = << >>

NoTree == [ parent |-> << >>, kind |-> << >>, toggle |-> << >>, loaded |-> { } ]

\* scrape_hierarchical_pages is not running
CrawlerIdle ==
    /\ site = [ tree |-> NoTree, outcomes |-> { } ]
    /\ shown = { }
    /\ crawl_pc = "idle"
    /\ page_data = << >>
    /\ page_i = 0
    /\ attempted = << >>
    /\ scraped_content = << >>
    /\ current_id = 0
    /\ metadata_json = [ written |-> FALSE, records |-> << >> ]
    /\ files = << >>

\* No result of a search: future.result has not ended
NoSearchResult == [ how |-> "pending", info |-> "" ]

\* _extract_last_modified_with_timeout is not called on its own
SearchIdle ==
    /\ search = [ duration |-> Some(0), finds |-> "absent" ]
    /\ future = "none"
    /\ lm_pc = "idle"
    /\ lm_elapsed = 0
    /\ lm_ret = NoSearchResult

\* An ORM entity: the row it was loaded from, whether its attributes are expired
\* and whether it belongs to an open session
Entity(row, expired, attached) ==
    [ some |-> TRUE, row |-> row, expired |-> expired, attached |-> attached ]

\* Query.first() on no row: None
NoEntity == [ some |-> FALSE, row |-> << >>, expired |-> FALSE, attached |-> FALSE ]

NotRead == [ done |-> FALSE, raised |-> "", value |-> 0 ]

\* The store's test is not running
DbIdle ==
    /\ db_arg = << >>
    /\ db_pc = "idle"
    /\ url_data = None
    /\ retrieved = NoEntity
    /\ title_read = NotRead

\* html_to_markdown is not called on its own
NormalizerIdle ==
    /\ md_arg = << >>
    /\ md_ret = [ done |-> FALSE, out |-> << >> ]

\* validate_metadata_structure is not called on its own
CheckerIdle ==
    /\ vm_arg = << >>
    /\ vm_ret = [ done |-> FALSE, out |-> FALSE ]

\* No function is called on its own
ToolsIdle == SearchIdle /\ DbIdle /\ NormalizerIdle /\ CheckerIdle

\* _parse_agent_response is not called on its own
ParserIdle ==
    /\ parse_arg = << >>
    /\ parse_ret = [ done |-> FALSE, out |-> Returns(None, None, "") ]

Init ==
    /\ InitCommon
    /\ ParserIdle
    /\ CrawlerIdle
    /\ ToolsIdle
    /\ store = << >>
    /\ \E n \in 0..MaxPages : metadata = Manifest(n)
    /\ progress_file \in
         { NoFile } \cup
         { [ exists |-> TRUE, next_index |-> k, results |-> NewResults(0),
             fresh |-> FALSE ] : k \in 1..MaxPages }
    /\ env \in { [ agent |-> AllOutcomes, db_faults |-> f,
            file_faults |-> { FALSE } ] : f \in { { FALSE }, BOOLEAN } }

\* A long manifest, a service that answers, rejects or rate-limits, a store that works
InitLong ==
    /\ InitCommon
    /\ ParserIdle
    /\ CrawlerIdle
    /\ ToolsIdle
    /\ store = << >>
    /\ metadata = Manifest(LongPages)
    /\ progress_file = NoFile
    /\ env = [ agent |-> LongOutcomes, db_faults |-> { FALSE },
            file_faults |-> { FALSE } ]

\* A long manifest where every record is scored, over a directory where
\* validation_progress.json may not be writable
InitFaulty ==
    /\ InitCommon
    /\ ParserIdle
    /\ CrawlerIdle
    /\ ToolsIdle
    /\ store = << >>
    /\ metadata = Manifest(LongPages)
    /\ progress_file = NoFile
    /\ env = [ agent |-> ScoredOutcomes, db_faults |-> { FALSE }, file_faults |-> BOOLEAN ]

-----------------------------------------------------------------------------
(* main *)

\* test_single_page: one request to the endpoint, sent without _rate_limit_delay;
\* when it fails the user chooses whether to go on
MainTestSinglePage ==
    /\ pc = "start"
    /\ \E proceed \in BOOLEAN : pc' = IF proceed THEN "main_setup" ELSE "exit"
    /\ caller' = "main"
    /\ gap' = Min(since_send, REQUEST_DELAY)
    /\ since_send' = 0
    /\ UNCHANGED << parserVars, crawlerVars, toolVars,
                    metadata, store, db_clock, progress_file, env, start_index,
                    batch_size, i, attempt, response_data, results, scores,
                    time_since_last, sleeps, outcomes, handled >>

\* main lines 444-470: the store's connection test, the metadata check, load_progress
\* and the resume prompt, then validate_all_pages(start_index=start_index)
MainSetup ==
    /\ pc = "main_setup"
    /\ \E connected \in BOOLEAN, resume \in BOOLEAN :
         IF ~connected \/ Len(metadata) = 0
         THEN /\ pc' = "exit"
              /\ UNCHANGED << start_index, results >>
         ELSE /\ pc' = "loop"
              /\ start_index' = IF progress_file.exists /\ resume
                                THEN progress_file.next_index ELSE 0
              /\ results' = NewResults(start_index')
    /\ UNCHANGED << parserVars, crawlerVars, toolVars,
                    metadata, store, db_clock, progress_file, env, caller, batch_size,
                    i, attempt, response_data, scores, time_since_last, since_send,
                    gap, sleeps, outcomes, handled >>

\* validate_all_pages(start_index=k, batch_size=b) called on a new validator
CallValidateAllPages ==
    /\ pc = "start"
    /\ ~progress_file.exists
    /\ \E k \in 0..(Len(metadata) + 1),
          b \in { None } \cup { Some(x) : x \in 0..(Len(metadata) + 1) } :
         /\ start_index' = k
         /\ batch_size' = b
         /\ results' = NewResults(k)
    /\ caller' = "direct"
    /\ pc' = "loop"
    /\ UNCHANGED << parserVars, crawlerVars, toolVars,
                    metadata, store, db_clock, progress_file, env, i, attempt,
                    response_data, scores, time_since_last, since_send, gap, sleeps,
                    outcomes, handled >>

-----------------------------------------------------------------------------
(* The loop of validate_all_pages *)

\* for i, page in enumerate(pages_to_process): the next page, or return results
LoopNext ==
    /\ pc = "loop"
    /\ pc' = IF i < TotalPages(Len(metadata), start_index, batch_size)
             THEN "pre_try" ELSE "done"
    /\ UNCHANGED << parserVars, crawlerVars, toolVars,
                    metadata, store, db_clock, progress_file, env, caller, start_index,
                    batch_size, i, attempt, response_data, results, scores,
                    time_since_last, since_send, gap, sleeps, outcomes,
                    handled >>

\* lines 286-291, before the try block: results['processed'] += 1
PreTry ==
    /\ pc = "pre_try"
    /\ results' = [ results EXCEPT !.processed = @ + 1 ]
    /\ handled' = Append(handled, current_index)
    /\ attempt' = 0
    /\ sleeps' = << >>
    /\ outcomes' = << >>
    /\ pc' = "rate_limit"
    /\ UNCHANGED << parserVars, crawlerVars, toolVars,
                    metadata, store, db_clock, progress_file, env, caller, start_index,
                    batch_size, i, response_data, scores, time_since_last, since_send,
                    gap >>

\* _query_with_retry, one attempt: _rate_limit_delay, then the request is sent
RateLimitAndSend ==
    /\ pc = "rate_limit"
    /\ gap' = IF since_send < 0 THEN -1
              ELSE Min(since_send + RateLimitSleep(time_since_last), REQUEST_DELAY)
    /\ time_since_last' = 0
    /\ since_send' = 0
    /\ pc' = "await"
    /\ UNCHANGED << parserVars, crawlerVars, toolVars,
                    metadata, store, db_clock, progress_file, env, caller, start_index,
                    batch_size, i, attempt, response_data, results, scores, sleeps,
                    outcomes, handled >>

\* _query_with_retry, one attempt: the request ends, and the call returns, or sleeps
\* and goes to the next attempt, or gives up
Response ==
    /\ pc = "await"
    /\ \E o \in env.agent :
         LET step == RetryStep(QueryContextualAgent(o), attempt)
         IN  /\ outcomes' = Append(outcomes, OutcomeTag(o))
             /\ sleeps' = IF step.sleep > 0 THEN Append(sleeps, step.sleep) ELSE sleeps
             /\ time_since_last' = Advance(time_since_last, step.sleep)
             /\ since_send' = Advance(since_send, step.sleep)
             /\ attempt' = IF step.next = "retry" THEN attempt + 1 ELSE attempt
             /\ response_data' = step.value
             /\ pc' = IF step.next = "retry" THEN "rate_limit" ELSE "check_response"
    /\ UNCHANGED << parserVars, crawlerVars, toolVars,
                    metadata, store, db_clock, progress_file, env, caller, start_index,
                    batch_size, i, results, scores, gap, handled >>

\* What lines 304-331 decide from the returned data: "error" (the record is counted
\* as an error and the loop continues), "pass" or "miss"
Verdict(data) ==
    IF ~data.some \/ ~data.body.has_message
    THEN "error"
    ELSE LET call == ParseAgentResponse(data.body.content)
             parsed == call.value
         IN  IF call.raised # ""
             THEN "error"          \* except Exception, line 352
             ELSE IF ~parsed[1].some \/ ~parsed[2].some
             THEN "error"
             ELSE IF MeetsThresholds(parsed[1].v, parsed[2].v) THEN "pass" ELSE "miss"

\* Mutant of CheckResponse: a record that fails ends the run
CheckResponse_Abort ==
    /\ pc = "check_response"
    /\ LET verdict == Verdict(response_data)
       IN  /\ results' =
                 IF verdict = "error" THEN [ results EXCEPT !.errors = @ + 1 ]
                 ELSE IF verdict = "pass" THEN [ results EXCEPT !.validated = @ + 1 ]
                 ELSE results
           /\ scores' = IF verdict = "error" THEN << None, None >>
                        ELSE ParseAgentResponse(response_data.body.content).value
           /\ i' = IF verdict = "error" THEN i + 1 ELSE i
           /\ pc' = IF verdict = "error" THEN "done"
                    ELSE IF verdict = "pass" THEN "save" ELSE "details"
    /\ attempt' = 0
    /\ response_data' = NoData
    /\ sleeps' = << >>
    /\ outcomes' = << >>
    /\ UNCHANGED << parserVars, crawlerVars, toolVars,
                    metadata, store, db_clock, progress_file, env, caller, start_index,
                    batch_size, time_since_last, since_send, gap, handled >>

\* lines 304-323: no response, no scores, or the threshold test
CheckResponse ==
    /\ pc = "check_response"
    /\ LET verdict == Verdict(response_data)
       IN  /\ results' =
                 IF verdict = "error" THEN [ results EXCEPT !.errors = @ + 1 ]
                 ELSE IF verdict = "pass" THEN [ results EXCEPT !.validated = @ + 1 ]
                 ELSE results
           /\ scores' = IF verdict = "error" THEN << None, None >>
                        ELSE ParseAgentResponse(response_data.body.content).value
           /\ i' = IF verdict = "error" THEN i + 1 ELSE i
           /\ pc' = IF verdict = "error" THEN "loop"
                    ELSE IF verdict = "pass" THEN "save" ELSE "details"
    /\ attempt' = 0
    /\ response_data' = NoData
    /\ sleeps' = << >>
    /\ outcomes' = << >>
    /\ UNCHANGED << parserVars, crawlerVars, toolVars,
                    metadata, store, db_clock, progress_file, env, caller, start_index,
                    batch_size, time_since_last, since_send, gap, handled >>

\* Mutant of Save: a record whose save failed gets no detail entry
Save_Continue ==
    /\ pc = "save"
    /\ \E fault1 \in env.db_faults, fault2 \in env.db_faults :
         LET saved == SaveToDatabase(store, current_page, scores[1].v, scores[2].v,
                                     db_clock + 1, fault1, fault2)
         IN  /\ store' = saved.store
             /\ results' = IF saved.result
                           THEN [ results EXCEPT !.saved = @ + 1 ]
                           ELSE [ results EXCEPT !.errors = @ + 1 ]
             /\ pc' = IF saved.result THEN "details" ELSE "loop"
             /\ i' = IF saved.result THEN i ELSE i + 1
             /\ scores' = IF saved.result THEN scores ELSE << None, None >>
    /\ db_clock' = db_clock + 1
    /\ UNCHANGED << parserVars, crawlerVars, toolVars,
                    metadata, progress_file, env, caller, start_index, batch_size,
                    attempt, response_data, time_since_last, since_send, gap,
                    sleeps, outcomes, handled >>

\* lines 326-329: _save_to_database, counted as saved or as an error
Save ==
    /\ pc = "save"
    /\ \E fault1 \in env.db_faults, fault2 \in env.db_faults :
         LET saved == SaveToDatabase(store, current_page, scores[1].v, scores[2].v,
                                     db_clock + 1, fault1, fault2)
         IN  /\ store' = saved.store
             /\ results' = IF saved.result
                           THEN [ results EXCEPT !.saved = @ + 1 ]
                           ELSE [ results EXCEPT !.errors = @ + 1 ]
    /\ db_clock' = db_clock + 1
    /\ pc' = "details"
    /\ UNCHANGED << parserVars, crawlerVars, toolVars,
                    metadata, progress_file, env, caller, start_index, batch_size, i,
                    attempt, response_data, scores, time_since_last, since_send, gap,
                    sleeps, outcomes, handled >>

\* lines 333-345: the detail entry, and the checkpoint every CHECKPOINT_EVERY pages
Details ==
    /\ pc = "details"
    /\ LET detailed == [ results EXCEPT !.details =
                            Append(@, Detail(current_index, current_page,
                                             scores[1].v, scores[2].v)) ]
       IN  \E fault \in env.file_faults :
             IF (i + 1) % CHECKPOINT_EVERY # 0
             THEN /\ results' = detailed
                  /\ progress_file' = progress_file
             ELSE IF fault
             THEN \* open() raises in _save_progress: except Exception, line 352
                  /\ results' = [ detailed EXCEPT !.errors = @ + 1 ]
                  /\ progress_file' = progress_file
             ELSE /\ results' = detailed
                  /\ progress_file' = SaveProgress(detailed, current_index + 1)
    /\ i' = i + 1
    /\ scores' = << None, None >>
    /\ pc' = "loop"
    /\ UNCHANGED << parserVars, crawlerVars, toolVars,
                    metadata, store, db_clock, env, caller, start_index, batch_size,
                    attempt, response_data, time_since_last, since_send, gap,
                    sleeps, outcomes, handled >>

\* except KeyboardInterrupt (lines 347-351): the interrupt arrives inside the try block
InterruptInTry ==
    /\ pc \in InTry
    /\ \E fault \in env.file_faults :
         IF fault
         THEN \* open() raises in the handler: the exception leaves validate_all_pages
              /\ progress_file' = progress_file
              /\ pc' = "killed"
         ELSE /\ progress_file' = SaveProgress(results, current_index)
              /\ pc' = "interrupted"
    /\ attempt' = 0
    /\ response_data' = NoData
    /\ scores' = << None, None >>
    /\ sleeps' = << >>
    /\ outcomes' = << >>
    /\ UNCHANGED << parserVars, crawlerVars, toolVars,
                    metadata, store, db_clock, env, caller, start_index, batch_size, i,
                    results, time_since_last, since_send, gap, handled >>

\* The interrupt arrives in the loop outside the try block: KeyboardInterrupt leaves
\* validate_all_pages, and main's except Exception does not catch it
InterruptOutsideTry ==
    /\ pc \in OutsideTry
    /\ pc' = "killed"
    /\ UNCHANGED << parserVars, crawlerVars, toolVars,
                    metadata, store, db_clock, progress_file, env, caller, start_index,
                    batch_size, i, attempt, response_data, results, scores,
                    time_since_last, since_send, gap, sleeps, outcomes,
                    handled >>

\* One second passes while the process waits: for the user's answer, for the
\* endpoint's response, for the store
Elapse ==
    /\ pc \in Blocking
    /\ time_since_last < SatTime \/ (since_send >= 0 /\ since_send < SatTime)
    /\ time_since_last' = Advance(time_since_last, 1)
    /\ since_send' = Advance(since_send, 1)
    /\ UNCHANGED << parserVars, crawlerVars, toolVars,
                    metadata, store, db_clock, progress_file, env, caller, pc,
                    start_index, batch_size, i, attempt, response_data, results, scores,
                    gap, sleeps, outcomes, handled >>

Next ==
    \/ MainTestSinglePage
    \/ MainSetup
    \/ CallValidateAllPages
    \/ LoopNext
    \/ PreTry
    \/ RateLimitAndSend
    \/ Response
    \/ CheckResponse
    \/ Save
    \/ Details
    \/ InterruptInTry
    \/ InterruptOutsideTry
    \/ Elapse

Spec == Init /\ [][Next]_vars

SpecLong == InitLong /\ [][Next]_vars

SpecFaulty == InitFaulty /\ [][Next]_vars

\* The rows an earlier run left in the store: one for the url of manifest page 4,
\* then one for the url of pages 1 and 2
SeedStore == << Row(PageAt(4), 95, 100, 0), Row(PageAt(2), 80, 100, 0) >>

\* A run over a store that earlier runs have filled
InitSeeded ==
    /\ InitCommon
    /\ ParserIdle
    /\ CrawlerIdle
    /\ ToolsIdle
    /\ store = SeedStore
    /\ metadata = Manifest(SeededPages)
    /\ progress_file = NoFile
    /\ env = [ agent |-> AllOutcomes, db_faults |-> BOOLEAN,
            file_faults |-> { FALSE } ]

SpecSeeded == InitSeeded /\ [][Next]_vars

-----------------------------------------------------------------------------
(* _parse_agent_response called on its own, on a reply text *)

ScoreNumbers == { -1, 0, 50, 100, 101 }

ScoreValues ==
    { Missing, ScoreValue("null", 0), ScoreValue("badstr", 0), ScoreValue("list", 0) }
      \cup { Num(v) : v \in ScoreNumbers }
      \cup { ScoreValue("numstr", v) : v \in { 50, 101 } }

Words == { "", "message", "content", "response" }

\* What the reply may hold where the JSON object is expected
Payloads ==
    { JsonObject(rel, cur, w) : rel \in ScoreValues, cur \in ScoreValues, w \in Words }
      \cup { Token(t, "") : t \in JsonTypes \ { "object" } }
      \cup { Prose(w) : w \in Words }

\* n white-space tokens
Pad(n) == [ k \in 1..n |-> Ws ]

\* The texts a payload comes in: bare, in a fence with or without the json tag,
\* with prose around the fence, in a fence that is not closed, or twice
Shapes == { "bare", "json_fence", "fence", "prose_fence", "open_fence", "twice" }

Wrap(shape, p, n) ==
    CASE shape = "bare"        -> Pad(n) \o << p >> \o Pad(n)
      [] shape = "json_fence"  -> << FenceJson >> \o Pad(n) \o << p >> \o Pad(n) \o << Fence >>
      [] shape = "fence"       -> << Fence >> \o Pad(n) \o << p >> \o Pad(n) \o << Fence >>
      [] shape = "prose_fence" -> << Prose(""), Ws, FenceJson >> \o Pad(n) \o << p >>
                                    \o Pad(n) \o << Fence, Ws, Prose("") >>
      [] shape = "open_fence"  -> << Fence >> \o Pad(n) \o << p >>
      [] shape = "twice"       -> << p >> \o Pad(n) \o << p >>

ReplyTexts ==
    { << >> } \cup { Wrap(shape, p, n) : shape \in Shapes, p \in Payloads, n \in 0..MaxPad }

InitParse ==
    /\ InitCommon
    /\ CrawlerIdle
    /\ ToolsIdle
    /\ store = << >>
    /\ metadata = Manifest(0)
    /\ progress_file = NoFile
    /\ env = [ agent |-> { }, db_faults |-> { FALSE },
            file_faults |-> { FALSE } ]
    /\ parse_arg \in ReplyTexts
    /\ parse_ret = [ done |-> FALSE, out |-> Returns(None, None, "") ]

\* The call self._parse_agent_response(parse_arg)
ParseCall ==
    /\ ~parse_ret.done
    /\ Len(metadata) = 0 /\ pc = "start" /\ env.agent = { }
    /\ parse_ret' = [ done |-> TRUE, out |-> ParseAgentResponse(parse_arg) ]
    /\ UNCHANGED << validatorVars, crawlerVars, toolVars, parse_arg >>

NextParse == ParseCall

SpecParse == InitParse /\ [][NextParse]_vars

-----------------------------------------------------------------------------
(* The page tree of the site, as the browser shows it (sso_weshare_scraper.py) *)

\* self.base_url
BaseUrl == "https://weshare.advantest.com"

\* An origin whose host name begins with the host name of the site
LongerHost == "https://weshare.advantest.com.evil.example"

OtherOrigin == "https://evil.example"

\* An href: its origin, whether the text after the origin (path, query) contains
\* BaseUrl, and the page it names
Href(origin, tailHasBase, page) ==
    [ origin |-> origin, tail_has_base |-> tailHasBase, page |-> page ]

\* get_attribute("href") of an anchor without href
NoHref == Href("", FALSE, 0)

\* self.base_url in href: BaseUrl is a substring of the href
BaseUrlIn(href) == href.origin \in { BaseUrl, LongerHost } \/ href.tail_has_base

\* The nodes (li elements) of a tree are 1..n in document order; parent[k] is the
\* node whose child list holds k, 0 for the list the crawl starts from.
RECURSIVE Ancestors(_, _)
Ancestors(parent, k) ==
    IF k = 0 THEN { } ELSE { parent[k] } \cup Ancestors(parent, parent[k])

\* The parent vectors of the trees of n nodes numbered in document order
ParentVectors(n) ==
    { parent \in [ 1..n -> 0..(n - 1) ] :
        \A k \in 1..n :
          /\ parent[k] < k
          /\ k > 1 => parent[k] \in { k - 1 } \cup Ancestors(parent, k - 1) }

HasChildren(parent, k) == \E d \in DOMAIN parent : parent[d] = k

\* What the page link of a node is: a page of the site ("own"), the page of node 1
\* again ("again"), a link to another origin that names BaseUrl in its query
\* ("query"), whose host name BaseUrl is a prefix of ("host"), or that does not
\* hold BaseUrl ("foreign"), an anchor without href ("nohref"), or a link of the
\* site without text ("notext")
LinkKinds == { "own", "again", "query", "host", "foreign", "nohref", "notext" }

\* The toggle of a node: no toggle ("none"), a toggle of class icon ("icon"), a toggle
\* whose class does not hold icon ("plain"), an icon toggle whose click raises ("stuck")
ToggleKinds == { "none", "icon", "plain", "stuck" }

\* The toggle a node usually has: an icon toggle when it has children
UsualToggle(parent, k) == IF HasChildren(parent, k) THEN "icon" ELSE "none"

\* The trees over a parent vector: every node with children has a toggle; at most one
\* node has a page link that is not "own"; at most one node has a toggle other than
\* the usual one; loaded holds the nodes whose child list is in the document before
\* any click
TreesOver(parent) ==
    LET nodes == DOMAIN parent
        kinds == { [ k \in nodes |-> IF k = odd THEN lk ELSE "own" ] :
                     odd \in { 0 } \cup nodes, lk \in LinkKinds }
        toggles == { t \in [ nodes -> ToggleKinds ] :
                       \E odd \in { 0 } \cup nodes : \A k \in nodes :
                         IF k # odd THEN t[k] = UsualToggle(parent, k)
                         ELSE IF HasChildren(parent, k) THEN t[k] \in { "plain", "stuck" }
                         ELSE t[k] = "icon" }
        loadable == { k \in nodes : HasChildren(parent, k) }
    IN  { [ parent |-> parent, kind |-> kind, toggle |-> toggle, loaded |-> loaded ] :
            kind \in kinds, toggle \in toggles, loaded \in SUBSET loadable }

Trees(n) == UNION { TreesOver(parent) : parent \in ParentVectors(n) }

\* An anchor of node k: the element's href, text and class, and for a toggle whether
\* its click raises
Anchor(k, href, text, class, clickRaises) ==
    [ node |-> k, href |-> href, text |-> text, class |-> class,
      click_raises |-> clickRaises ]

\* The page link of node k; its text is the title of the page
PageLink(tree, k) ==
    LET kind == tree.kind[k]
        href == CASE kind = "own"     -> Href(BaseUrl, FALSE, k)
                  [] kind = "again"   -> Href(BaseUrl, FALSE, 1)
                  [] kind = "query"   -> Href(OtherOrigin, TRUE, k)
                  [] kind = "host"    -> Href(LongerHost, FALSE, k)
                  [] kind = "foreign" -> Href(OtherOrigin, FALSE, k)
                  [] kind = "nohref"  -> NoHref
                  [] kind = "notext"  -> Href(BaseUrl, FALSE, k)
    IN  Anchor(k, href, IF kind = "notext" THEN 0 ELSE k, "", FALSE)

\* The expand toggle of node k
Toggle(tree, k) ==
    Anchor(k, NoHref, 0, IF tree.toggle[k] = "plain" THEN "plain" ELSE "icon",
           tree.toggle[k] = "stuck")

\* The anchors inside node k itself: the toggle, when it has one, then the page link
OwnAnchors(tree, k) ==
    IF tree.toggle[k] = "none"
    THEN << PageLink(tree, k) >>
    ELSE << Toggle(tree, k), PageLink(tree, k) >>

RECURSIVE SortedSeq(_)
SortedSeq(S) ==
    IF S = { } THEN << >>
    ELSE LET m == CHOOSE x \in S : \A y \in S : x <= y
         IN  << m >> \o SortedSeq(S \ { m })

\* find_elements(By.TAG_NAME, "li") on the child list of node k (0: the list the
\* crawl starts from): every li below it that is in the document, nested ones
\* included, in document order.  d is in the document when the child lists of k and
\* of the nodes between k and d are.
ListItems(tree, open, k) ==
    SortedSeq({ d \in DOMAIN tree.parent :
                  /\ k \in Ancestors(tree.parent, d)
                  /\ \A a \in Ancestors(tree.parent, d) :
                       (a = k \/ k \in Ancestors(tree.parent, a)) => a \in open \cup { 0 } })

RECURSIVE Flatten(_)
Flatten(ss) == IF ss = << >> THEN << >> ELSE Head(ss) \o Flatten(Tail(ss))

\* item.find_elements(By.XPATH, ".//a"): the anchors of the node and of every li
\* below it that is in the document, in document order
FindAnchors(tree, open, k) ==
    LET below == ListItems(tree, open, k)
    IN  OwnAnchors(tree, k) \o Flatten([ j \in DOMAIN below |-> OwnAnchors(tree, below[j]) ])

\* if href and title and self.base_url in href (lines 351, 382)
ValidLink(anchor) ==
    /\ anchor.href # NoHref
    /\ anchor.text # 0
    /\ BaseUrlIn(anchor.href)

\* item_data.append((href, title))
ItemData(anchor) ==
    IF ValidLink(anchor) THEN << [ href |-> anchor.href, title |-> anchor.text ] >> ELSE << >>

RECURSIVE ExpandAndScrape(_, _, _)
RECURSIVE ExpandItem(_, _, _)

\* Mutant of ExpandItem: a toggle whose click raises loses the link of its node
ExpandItem_Fatal(tree, open, item) ==
    LET anchors == FindAnchors(tree, open, item)
    IN  IF Len(anchors) > 1
        THEN LET found  == ItemData(anchors[2])
                 toggle == anchors[1]
             IN  IF toggle.class # "icon"
                 THEN [ data |-> found, open |-> open ]
                 ELSE IF toggle.click_raises
                 THEN [ data |-> << >>, open |-> open ]
                 ELSE LET clicked == open \cup { toggle.node }
                          child_items == ListItems(tree, clicked, item)
                          children == ExpandAndScrape(tree, clicked, child_items)
                      IN  [ data |-> found \o children.data, open |-> children.open ]
        ELSE IF Len(anchors) = 1
        THEN [ data |-> ItemData(anchors[1]), open |-> open ]
        ELSE [ data |-> << >>, open |-> open ]

\* One pass of the loop of _expand_and_scrape, for the li element item: the pairs
\* it adds to item_data and the child lists the document shows afterwards
ExpandItem(tree, open, item) ==
    LET anchors == FindAnchors(tree, open, item)
    IN  IF Len(anchors) > 1
        THEN LET found  == ItemData(anchors[2])
                 toggle == anchors[1]
             IN  IF toggle.class # "icon" \/ toggle.click_raises
                 THEN [ data |-> found, open |-> open ]
                 ELSE \* toggle.click() shows the child list of the toggle's node
                      LET clicked == open \cup { toggle.node }
                          child_items == ListItems(tree, clicked, item)
                          children == ExpandAndScrape(tree, clicked, child_items)
                      IN  [ data |-> found \o children.data, open |-> children.open ]
        ELSE IF Len(anchors) = 1
        THEN [ data |-> ItemData(anchors[1]), open |-> open ]
        ELSE [ data |-> << >>, open |-> open ]

\* _expand_and_scrape(items): item_data, and the child lists shown afterwards
ExpandAndScrape(tree, open, items) ==
    IF items = << >>
    THEN [ data |-> << >>, open |-> open ]
    ELSE LET first == ExpandItem(tree, open, Head(items))
             rest  == ExpandAndScrape(tree, first.open, Tail(items))
         IN  [ data |-> first.data \o rest.data, open |-> rest.open ]

-----------------------------------------------------------------------------
(* The crawl: scrape_hierarchical_pages and _scrape_single_page_enhanced *)

\* What a page does when it is scraped: whether the browser gets it (fetch), whether
\* its source has visible text, whether html_to_markdown and BeautifulSoup's get_text
\* raise on its source, whether its files can be written, and whether it shows
\* breadcrumbs ("some", "none", or "raises" when the search for them raises)
PageOutcome(fetch, visible, normalizer, plainText, save, crumbs) ==
    [ fetch |-> fetch, visible |-> visible, normalizer |-> normalizer,
      plain_text |-> plainText, save |-> save, crumbs |-> crumbs ]

\* A page that loads, has text, converts and is saved
GoodPage == PageOutcome("ok", TRUE, "ok", "ok", "ok", "some")

PageOutcomes ==
    { GoodPage,
      PageOutcome("fails", TRUE, "ok", "ok", "ok", "some"),
      PageOutcome("ok", FALSE, "ok", "ok", "ok", "some"),
      PageOutcome("ok", TRUE, "raises", "ok", "ok", "some"),
      PageOutcome("ok", FALSE, "raises", "ok", "ok", "some"),
      PageOutcome("ok", TRUE, "raises", "raises", "ok", "some"),
      PageOutcome("ok", TRUE, "ok", "ok", "html_fails", "some"),
      PageOutcome("ok", TRUE, "ok", "ok", "md_fails", "some"),
      PageOutcome("ok", FALSE, "ok", "ok", "md_fails", "some"),
      PageOutcome("ok", TRUE, "ok", "ok", "ok", "none"),
      PageOutcome("ok", TRUE, "ok", "ok", "ok", "raises") }

\* Texts are sequences; the empty string is the empty sequence.
\* html_to_markdown(html_content): the markdown of the page's visible text
HtmlToMarkdown(page, o) ==
    IF o.normalizer = "raises" THEN [ raised |-> TRUE, text |-> << >> ]
    ELSE [ raised |-> FALSE, text |-> IF o.visible THEN << "markdown", page >> ELSE << >> ]

\* BeautifulSoup(html_content, 'html.parser').get_text(separator='\n', strip=True)
GetText(page, o) ==
    IF o.plain_text = "raises" THEN [ raised |-> TRUE, text |-> << >> ]
    ELSE [ raised |-> FALSE, text |-> IF o.visible THEN << "text", page >> ELSE << >> ]

\* lines 442-455: markdown_content
MarkdownContent(page, title, o) ==
    LET md == HtmlToMarkdown(page, o)
        plain == GetText(page, o)
    IN  IF ~md.raised THEN md.text
        ELSE IF ~plain.raised THEN plain.text
        ELSE << "title", title >>

NoRecord == [ some |-> FALSE, id |-> 0, url |-> NoHref, title |-> 0, content |-> << >>,
              markdown_path |-> FALSE, breadcrumbs |-> << >> ]

\* lines 403-414: breadcrumb_path, the innerText of the breadcrumb links joined by
\* " > "; the empty string when there is none or the search for them raises
BreadcrumbPath(page, o) == IF o.crumbs = "some" THEN << "crumbs", page >> ELSE << >>

\* _scrape_single_page_enhanced(href, title, output_dir): the record, or None when an
\* exception was caught (line 493)
ScrapeSinglePageEnhanced(href, title, id, o) ==
    LET markdown_content == MarkdownContent(href.page, title, o)
    IN  IF o.fetch = "fails" THEN NoRecord
        ELSE IF o.save = "html_fails" THEN NoRecord
        ELSE IF markdown_content # << >> /\ o.save = "md_fails" THEN NoRecord
        ELSE [ some |-> TRUE, id |-> id, url |-> href, title |-> title,
               content |-> markdown_content,
               markdown_path |-> markdown_content # << >>,
               breadcrumbs |-> BreadcrumbPath(href.page, o) ]

\* The characters that _clean_filename replaces, line 569: [<>:"/\\|?*]
InvalidChars == { "<", ">", ":", "\"", "/", "\\", "|", "?", "*" }

\* re.sub(r'[<>:"/\\|?*]', '_', title), line 569
ReplaceInvalid(t) == [ k \in DOMAIN t |-> IF t[k] \in InvalidChars THEN "_" ELSE t[k] ]

\* re.sub(r'_{2,}', '_', cleaned), line 571
RECURSIVE SqueezeUnderscores(_)
SqueezeUnderscores(t) ==
    IF Len(t) < 2 THEN t
    ELSE IF t[1] = "_" /\ t[2] = "_" THEN SqueezeUnderscores(Tail(t))
    ELSE << t[1] >> \o SqueezeUnderscores(Tail(t))

\* cleaned.strip('_'), line 573
RECURSIVE StripUnderscores(_)
StripUnderscores(t) ==
    IF t = << >> THEN t
    ELSE IF t[1] = "_" THEN StripUnderscores(Tail(t))
    ELSE IF t[Len(t)] = "_" THEN StripUnderscores(SubSeq(t, 1, Len(t) - 1))
    ELSE t

\* _clean_filename(title), lines 565-574; a title is a sequence of characters
CleanFilename(title) ==
    LET cleaned == StripUnderscores(SqueezeUnderscores(ReplaceInvalid(title)))
    IN  SubSeq(cleaned, 1, Min(Len(cleaned), 100))

\* The text of the link of node k of a page tree is the number k in digits
TitleText(k) == << << "0", "1", "2", "3", "4", "5", "6", "7", "8", "9" >>[k + 1] >>

\* lines 475-488: the files that _scrape_single_page_enhanced writes for the page
\* number n of the run, each with its path: page_<current_id>_<clean title>.<ext>
FilesWritten(n, title, id, o) ==
    LET path(ext) == [ id |-> id, name |-> CleanFilename(title), ext |-> ext ]
        markdown_content == MarkdownContent(n, title, o)
    IN  IF o.fetch = "fails" \/ o.save = "html_fails" THEN << >>
        ELSE IF markdown_content = << >> \/ o.save = "md_fails"
        THEN << [ path |-> path("html"), page |-> n ] >>
        ELSE << [ path |-> path("html"), page |-> n ],
                [ path |-> path("md"), page |-> n ] >>

\* A flat list of n pages of the site
FlatTree(n) ==
    [ parent |-> [ k \in 1..n |-> 0 ], kind |-> [ k \in 1..n |-> "own" ],
      toggle |-> [ k \in 1..n |-> "none" ], loaded |-> { } ]

\* Sites: any tree with pages that work, or a flat list with pages that may fail
Sites ==
    { [ tree |-> t, outcomes |-> { GoodPage } ] :
        t \in UNION { Trees(n) : n \in 0..MaxNodes } }
      \cup { [ tree |-> FlatTree(n), outcomes |-> PageOutcomes ] : n \in 1..MaxNodes }

\* scrape_hierarchical_pages has found the list of the start page (line 285)
InitCrawl ==
    /\ InitCommon
    /\ ParserIdle
    /\ ToolsIdle
    /\ store = << >>
    /\ metadata = Manifest(0)
    /\ progress_file = NoFile
    /\ env = [ agent |-> { }, db_faults |-> { FALSE },
            file_faults |-> { FALSE } ]
    /\ site \in Sites
    /\ shown = site.tree.loaded
    /\ crawl_pc = "list_found"
    /\ page_data = << >>
    /\ page_i = 0
    /\ attempted = << >>
    /\ scraped_content = << >>
    /\ current_id = 0
    /\ metadata_json = [ written |-> FALSE, records |-> << >> ]
    /\ files = << >>

\* lines 285-292: list_items, page_data = self._expand_and_scrape(list_items), and
\* the return of [] when no page was found
Discover ==
    /\ crawl_pc = "list_found"
    /\ LET list_items == ListItems(site.tree, shown, 0)
           found == ExpandAndScrape(site.tree, shown, list_items)
       IN  /\ page_data' = found.data
           /\ shown' = found.open
           /\ crawl_pc' = IF found.data = << >> THEN "no_pages" ELSE "pages"
    /\ UNCHANGED << validatorVars, parserVars, toolVars, site, page_i, attempted,
                    scraped_content, current_id, metadata_json, files >>

\* Mutant of ScrapePage: a page that fails ends the crawl
ScrapePage_Abort ==
    /\ crawl_pc = "pages"
    /\ page_i < Len(page_data)
    /\ \E o \in site.outcomes :
         LET content == ScrapeSinglePageEnhanced(page_data[page_i + 1].href,
                                                 page_data[page_i + 1].title,
                                                 current_id, o)
         IN  /\ scraped_content' = IF content.some THEN Append(scraped_content, content)
                                   ELSE scraped_content
             /\ current_id' = IF content.some THEN current_id + 1 ELSE current_id
             /\ attempted' = Append(attempted, [ ok |-> content.some, outcome |-> o,
                                                  slept |-> IF content.some THEN 2 ELSE 0 ])
             /\ files' = files \o FilesWritten(page_i + 1,
                                                TitleText(page_data[page_i + 1].title),
                                                current_id, o)
    /\ page_i' = page_i + 1
    /\ crawl_pc' = IF Len(attempted') > 0 /\ ~attempted'[Len(attempted')].ok
                   THEN "returned" ELSE crawl_pc
    /\ UNCHANGED << validatorVars, parserVars, toolVars, site, shown, page_data,
                    metadata_json >>

\* lines 296-313: one pass of the loop over page_data
ScrapePage ==
    /\ crawl_pc = "pages"
    /\ page_i < Len(page_data)
    /\ \E o \in site.outcomes :
         LET content == ScrapeSinglePageEnhanced(page_data[page_i + 1].href,
                                                 page_data[page_i + 1].title,
                                                 current_id, o)
         IN  /\ scraped_content' = IF content.some THEN Append(scraped_content, content)
                                   ELSE scraped_content
             /\ current_id' = IF content.some THEN current_id + 1 ELSE current_id
             /\ attempted' = Append(attempted, [ ok |-> content.some, outcome |-> o,
                                                  slept |-> IF content.some THEN 2 ELSE 0 ])
             /\ files' = files \o FilesWritten(page_i + 1,
                                                TitleText(page_data[page_i + 1].title),
                                                current_id, o)
    /\ page_i' = page_i + 1
    /\ UNCHANGED << validatorVars, parserVars, toolVars, site, shown, crawl_pc,
                    page_data, metadata_json >>

\* lines 316-329: after the loop, metadata.json is written and the records returned
WriteMetadata ==
    /\ crawl_pc = "pages"
    /\ page_i = Len(page_data)
    /\ metadata_json' = [ written |-> TRUE, records |-> scraped_content ]
    /\ crawl_pc' = "returned"
    /\ UNCHANGED << validatorVars, parserVars, toolVars, site, shown, page_data, page_i,
                    attempted, scraped_content, current_id, files >>

NextCrawl ==
    \/ Discover
    \/ ScrapePage
    \/ WriteMetadata

SpecCrawl == InitCrawl /\ [][NextCrawl]_vars

-----------------------------------------------------------------------------
(* The crawl of a list of urls: scrape_urls (sso_weshare_scraper.py 622-673) *)

\* Page titles (driver.title): two that differ in a character that may not be part
\* of a file name, one that is their cleaned form, and another one
Titles == { << "a", "/", "b" >>, << "a", ":", "b" >>, << "a", "_", "b" >>, << "c" >> }

\* The lists of n urls, each with the title of its page
UrlLists(n) ==
    { [ k \in 1..n |-> [ href |-> Href(BaseUrl, FALSE, k), title |-> title[k] ] ] :
        title \in [ 1..n -> Titles ] }

\* scrape_urls(urls, output_dir) has been called by an authenticated scraper
InitUrls ==
    /\ InitCommon
    /\ ParserIdle
    /\ ToolsIdle
    /\ store = << >>
    /\ metadata = Manifest(0)
    /\ progress_file = NoFile
    /\ env = [ agent |-> { }, db_faults |-> { FALSE },
            file_faults |-> { FALSE } ]
    /\ site = [ tree |-> NoTree, outcomes |-> PageOutcomes ]
    /\ shown = { }
    /\ crawl_pc = "urls"
    /\ page_data \in UNION { UrlLists(n) : n \in 0..MaxUrls }
    /\ page_i = 0
    /\ attempted = << >>
    /\ scraped_content = << >>
    /\ current_id \in 0..1
    /\ metadata_json = [ written |-> FALSE, records |-> << >> ]
    /\ files = << >>

\* lines 641-663: one pass of the loop over urls; the record gets the loop index as
\* its id, self.current_id stays as it is
ScrapeUrl ==
    /\ crawl_pc = "urls"
    /\ page_i < Len(page_data)
    /\ \E o \in site.outcomes :
         LET url == page_data[page_i + 1].href
             title == page_data[page_i + 1].title
             content == ScrapeSinglePageEnhanced(url, title, current_id, o)
         IN  /\ scraped_content' =
                   IF content.some
                   THEN Append(scraped_content, [ content EXCEPT !.id = page_i ])
                   ELSE scraped_content
             /\ attempted' = Append(attempted,
                                    [ ok |-> content.some, outcome |-> o,
                                      slept |-> IF o.fetch = "fails" THEN 0 ELSE 6 ])
             /\ files' = files \o FilesWritten(page_i + 1, title, current_id, o)
    /\ page_i' = page_i + 1
    /\ UNCHANGED << validatorVars, parserVars, toolVars, site, shown, crawl_pc,
                    page_data, current_id, metadata_json >>

\* lines 666-673: metadata.json is written and the records returned
WriteUrlsMetadata ==
    /\ crawl_pc = "urls"
    /\ page_i = Len(page_data)
    /\ metadata_json' = [ written |-> TRUE, records |-> scraped_content ]
    /\ crawl_pc' = "returned"
    /\ UNCHANGED << validatorVars, parserVars, toolVars, site, shown, page_data, page_i,
                    attempted, scraped_content, current_id, files >>

NextUrls ==
    \/ ScrapeUrl
    \/ WriteUrlsMetadata

SpecUrls == InitUrls /\ [][NextUrls]_vars

\* The validation run, the parser and the crawl are not running
OnlyTools ==
    /\ InitCommon
    /\ ParserIdle
    /\ CrawlerIdle
    /\ store = << >>
    /\ metadata = Manifest(0)
    /\ progress_file = NoFile
    /\ env = [ agent |-> { }, db_faults |-> { FALSE },
            file_faults |-> { FALSE } ]

-----------------------------------------------------------------------------
(* The store read back: add_validated_url, get_validated_url (database.py) *)

\* session.query(ValidatedURL).filter(ValidatedURL.url == url).first(), line 106: the
\* entity of the first row with the url, loaded and in the session
QueryFirst(st, url) ==
    IF HasUrl(st, url) THEN Entity(st[FirstWithUrl(st, url)], FALSE, TRUE) ELSE NoEntity

\* session.commit(), line 44: the sessionmaker of line 23 leaves expire_on_commit
\* at its default True, so the commit expires the attributes of every entity
SessionCommit(e) == IF e.some THEN [ e EXCEPT !.expired = TRUE ] ELSE e

\* session.close(), line 50: the entities of the session are detached
SessionClose(e) == IF e.some THEN [ e EXCEPT !.attached = FALSE ] ELSE e

\* DatabaseManager.get_validated_url, lines 102-109: the value of the return
\* statement is computed inside the with block, then the session is committed and
\* closed; None when the store fails
GetValidatedUrl(st, url, fault) ==
    IF fault THEN NoEntity ELSE SessionClose(SessionCommit(QueryFirst(st, url)))

\* The read of an attribute of an entity: an expired attribute is loaded from the
\* session, and the entity of a closed session raises DetachedInstanceError
ReadAttribute(st, e, name) ==
    IF ~e.expired
    THEN [ done |-> TRUE, raised |-> "", value |-> e.row[name] ]
    ELSE IF e.attached
    THEN [ done |-> TRUE, raised |-> "", value |-> st[FirstWithUrl(st, e.row.url)][name] ]
    ELSE [ done |-> TRUE, raised |-> "DetachedInstanceError", value |-> 0 ]

\* The rows that the store may hold before the test
DbStores == { << >>, SeedStore, << Row(PageAt(1), 80, 100, 0) >> }

\* test_database.py line 28: add_validated_url is about to be called
InitDb ==
    /\ InitCommon
    /\ ParserIdle
    /\ CrawlerIdle
    /\ SearchIdle /\ NormalizerIdle /\ CheckerIdle
    /\ store \in DbStores
    /\ metadata = Manifest(0)
    /\ progress_file = NoFile
    /\ env = [ agent |-> { }, db_faults |-> BOOLEAN,
            file_faults |-> { FALSE } ]
    /\ db_arg \in { Row(PageAt(j), rel, cur, 0) :
                       j \in 1..(MaxPages + 1), rel \in { 80, 95 }, cur \in { 88, 100 } }
    /\ db_pc = "add"
    /\ url_data = None
    /\ retrieved = NoEntity
    /\ title_read = NotRead

\* test_database.py lines 29-35: url_data = db_manager.add_validated_url(...)
DbAdd ==
    /\ db_pc = "add"
    /\ \E fault \in env.db_faults :
         LET row == [ db_arg EXCEPT !.validation_timestamp = db_clock + 1 ]
             added == AddValidatedUrl(store, row, fault)
         IN  /\ store' = added.store
             /\ url_data' = IF added.result THEN Some(row) ELSE None
             /\ db_pc' = IF added.result THEN "get" ELSE "done"
    /\ db_clock' = db_clock + 1
    /\ UNCHANGED << metadata, progress_file, env, caller, pc, start_index, batch_size, i,
                    attempt, response_data, results, scores, time_since_last,
                    since_send, gap, sleeps, outcomes, handled, parserVars,
                    crawlerVars, searchVars, normalizerVars, checkerVars, db_arg,
                    retrieved, title_read >>

\* test_database.py line 41: retrieved = db_manager.get_validated_url(url_data['url'])
DbGet ==
    /\ db_pc = "get"
    /\ \E fault \in env.db_faults :
         /\ retrieved' = GetValidatedUrl(store, url_data.v.url, fault)
         /\ db_pc' = IF retrieved'.some THEN "read" ELSE "done"
    /\ UNCHANGED << validatorVars, parserVars, crawlerVars, searchVars, normalizerVars,
                    checkerVars, db_arg, url_data, title_read >>

\* test_database.py lines 42-43: if retrieved: ... retrieved.title
DbReadTitle ==
    /\ db_pc = "read"
    /\ title_read' = ReadAttribute(store, retrieved, "title")
    /\ db_pc' = "done"
    /\ UNCHANGED << validatorVars, parserVars, crawlerVars, searchVars, normalizerVars,
                    checkerVars, db_arg, url_data, retrieved >>

NextDb ==
    \/ DbAdd
    \/ DbGet
    \/ DbReadTitle

SpecDb == InitDb /\ [][NextDb]_vars

-----------------------------------------------------------------------------
(* The clean-up steps of html_to_markdown (html_to_markdown.py lines 21-28, 66-76) *)

\* A text is a sequence of characters: the newline, the space, a letter, the bar,
\* and two groups of characters that the patterns take as a whole: "bt" for three
\* backticks and "dash" for three hyphens
NL == "\n"

SP == " "

IsSpace(c) == c \in { NL, SP }

\* The length of the longest prefix of t that is white space
RECURSIVE SpaceRun(_)
SpaceRun(t) == IF t # << >> /\ IsSpace(t[1]) THEN 1 + SpaceRun(Tail(t)) ELSE 0

\* The position of the last newline among the first n characters of t, 0 for none
RECURSIVE LastNewline(_, _)
LastNewline(t, n) ==
    IF n = 0 THEN 0 ELSE IF t[n] = NL THEN n ELSE LastNewline(t, n - 1)

\* The position of the first newline among the first n characters of t, 0 for none
FirstNewline(t, n) ==
    IF \E k \in 1..n : t[k] = NL
    THEN CHOOSE k \in 1..n : t[k] = NL /\ \A j \in 1..(k - 1) : t[j] # NL
    ELSE 0

RECURSIVE CollapseNewlines_Lazy(_)
\* Mutant of CollapseNewlines: the pattern \n\s*?\n, whose match ends at the first
\* newline that follows
CollapseNewlines_Lazy(t) ==
    IF t = << >> THEN << >>
    ELSE IF t[1] # NL THEN << t[1] >> \o CollapseNewlines_Lazy(Tail(t))
    ELSE LET rest == Tail(t)
             last == FirstNewline(rest, SpaceRun(rest))
         IN  IF last = 0 THEN << NL >> \o CollapseNewlines_Lazy(rest)
             ELSE << NL, NL >> \o CollapseNewlines_Lazy(SubSeq(rest, last + 1, Len(rest)))

RECURSIVE CollapseNewlines(_)
\* EXCESSIVE_NEWLINES_RE.sub("\n\n", markdown), lines 21 and 71: every match of
\* \n\s*\n, from a newline to the last newline of the white space after it, becomes
\* two newlines; the search goes on behind the match
CollapseNewlines(t) ==
    IF t = << >> THEN << >>
    ELSE IF t[1] # NL THEN << t[1] >> \o CollapseNewlines(Tail(t))
    ELSE LET rest == Tail(t)
             last == LastNewline(rest, SpaceRun(rest))
         IN  IF last = 0 THEN << NL >> \o CollapseNewlines(rest)
             ELSE << NL, NL >> \o CollapseNewlines(SubSeq(rest, last + 1, Len(rest)))

\* markdown.strip(), line 71
RECURSIVE StripText(_)
StripText(t) ==
    IF t = << >> THEN t
    ELSE IF IsSpace(t[1]) THEN StripText(Tail(t))
    ELSE IF IsSpace(t[Len(t)]) THEN StripText(SubSeq(t, 1, Len(t) - 1))
    ELSE t

\* The front of REDUNDANT_TABLES_RE, line 28: bar, space, three backticks, space
TableOpen == << "|", SP, "bt", SP >>

\* Its back: space, three backticks, space, bar, newline, and the row | --- |
TableClose == << SP, "bt", SP, "|", NL, "|", SP, "dash", SP, "|" >>

HasPrefix(t, p) == Len(t) >= Len(p) /\ SubSeq(t, 1, Len(p)) = p

\* The first position from k on at which p occurs in t, 0 for none
FindFrom(t, p, k) ==
    LET at == { j \in k..(Len(t) - Len(p) + 1) : SubSeq(t, j, j + Len(p) - 1) = p }
    IN  IF at = { } THEN 0 ELSE CHOOSE j \in at : \A m \in at : j <= m

\* REDUNDANT_TABLES_RE.sub(three backticks, group 1, three backticks, newline),
\* lines 28 and 74: the group (.*?) with DOTALL is the shortest text, newlines
\* included, up to the next back of the pattern
RECURSIVE RewriteTables(_)
RewriteTables(t) ==
    IF t = << >> THEN << >>
    ELSE LET close == IF HasPrefix(t, TableOpen)
                      THEN FindFrom(t, TableClose, Len(TableOpen) + 1) ELSE 0
         IN  IF close = 0 THEN << t[1] >> \o RewriteTables(Tail(t))
             ELSE << "bt" >> \o SubSeq(t, Len(TableOpen) + 1, close - 1) \o << "bt", NL >>
                    \o RewriteTables(SubSeq(t, close + Len(TableClose), Len(t)))

\* html_to_markdown, lines 70-76, on the text that markdownify returned
CleanMarkdown(markdown) == RewriteTables(StripText(CollapseNewlines(markdown)))

\* The pieces that the texts are made of
Pieces == { << NL >>, << NL, NL, NL, NL >>, << SP >>, << "x" >>, TableOpen, TableClose }

RECURSIVE TextsOf(_)
\* The texts of at most n pieces
TextsOf(n) ==
    IF n = 0 THEN { << >> }
    ELSE LET shorter == TextsOf(n - 1)
         IN  shorter \cup { t \o p : t \in shorter, p \in Pieces }

\* markdownify has returned md_arg, line 68
InitNormalize ==
    /\ OnlyTools
    /\ SearchIdle /\ DbIdle /\ CheckerIdle
    /\ md_arg \in TextsOf(MaxPieces)
    /\ md_ret = [ done |-> FALSE, out |-> << >> ]

\* lines 70-76
Normalize ==
    /\ ~md_ret.done
    /\ md_ret' = [ done |-> TRUE, out |-> CleanMarkdown(md_arg) ]
    /\ UNCHANGED << validatorVars, parserVars, crawlerVars, searchVars, dbVars,
                    checkerVars, md_arg >>

NextNormalize == Normalize

SpecNormalize == InitNormalize /\ [][NextNormalize]_vars

-----------------------------------------------------------------------------
(* validate_metadata_structure (validate_metadata.py lines 7-107) *)

\* An entry of the metadata file gives each field a value kind: "missing" when the
\* entry has no such key, "empty" for a value that is falsy (the empty string),
\* "ok" for a value of the expected form, "bad" for a string of another form (a
\* date that is not MM/DD/YY, a url that does not start with http)
required_fields == << "id", "url", "title", "breadcrumbs", "formatted_date" >>

content_fields == << "content", "markdown_content" >>

\* An entry as _scrape_single_page_enhanced writes it for a page with breadcrumbs
\* and text
CrawledEntry ==
    [ id |-> "ok", url |-> "ok", title |-> "ok", breadcrumbs |-> "ok",
      formatted_date |-> "ok", content |-> "ok", markdown_content |-> "ok" ]

\* The values a field of an entry may have
FieldValues(field) ==
    IF field \in { "url", "formatted_date" }
    THEN { "missing", "empty", "ok", "bad" }
    ELSE { "missing", "empty", "ok" }

\* The entries that differ from CrawledEntry in at most one field besides the
\* breadcrumbs
Entries ==
    UNION { { [ [ CrawledEntry EXCEPT ![field] = value ] EXCEPT !.breadcrumbs = crumbs ] :
                value \in FieldValues(field),
                crumbs \in FieldValues("breadcrumbs") } :
            field \in DOMAIN CrawledEntry \ { "breadcrumbs" } }

\* lines 52-56: the issues of the required fields of an entry
RequiredIssues(entry) ==
    { k \in DOMAIN required_fields : entry[required_fields[k]] \in { "missing", "empty" } }

\* line 59: any(field in entry and entry[field] for field in content_fields)
HasContent(entry) ==
    \E k \in DOMAIN content_fields : entry[content_fields[k]] \notin { "missing", "empty" }

\* lines 64-67: a formatted_date that is present is a string of three parts
DateIssue(entry) == entry.formatted_date \in { "empty", "bad" }

\* lines 69-72: a url that is present is a string that starts with http
UrlIssue(entry) == entry.url \in { "empty", "bad" }

\* lines 49-76: the entry has no issue
ValidEntry(entry) ==
    /\ RequiredIssues(entry) = { }
    /\ HasContent(entry)
    /\ ~DateIssue(entry)
    /\ ~UrlIssue(entry)

\* validate_metadata_structure(metadata_path): file.kind tells whether the file is
\* there ("absent"), is JSON ("not_json"), holds a list ("not_list", "list")
ValidateMetadataStructure(file) ==
    IF file.kind # "list" THEN FALSE
    ELSE IF Len(file.entries) = 0 THEN FALSE
    ELSE LET valid_entries == Cardinality({ k \in DOMAIN file.entries :
                                              ValidEntry(file.entries[k]) })
         IN  valid_entries = Len(file.entries)

\* The metadata files
MetadataFiles ==
    { [ kind |-> k, entries |-> << >> ] : k \in { "absent", "not_json", "not_list", "list" } }
      \cup { [ kind |-> "list", entries |-> e ] :
               e \in UNION { [ 1..n -> Entries ] : n \in 1..MaxEntries } }

\* validate_metadata_structure has been called
InitCheck ==
    /\ OnlyTools
    /\ SearchIdle /\ DbIdle /\ NormalizerIdle
    /\ vm_arg \in MetadataFiles
    /\ vm_ret = [ done |-> FALSE, out |-> FALSE ]

\* lines 18-107
ValidateCall ==
    /\ ~vm_ret.done
    /\ vm_ret' = [ done |-> TRUE, out |-> ValidateMetadataStructure(vm_arg) ]
    /\ UNCHANGED << validatorVars, parserVars, crawlerVars, searchVars, dbVars,
                    normalizerVars, vm_arg >>

NextCheck == ValidateCall

SpecCheck == InitCheck /\ [][NextCheck]_vars

-----------------------------------------------------------------------------
(* The search for the last-modified note: _extract_last_modified_with_timeout  *)
(* (sso_weshare_scraper.py lines 499-563)                                      *)

\* timeout=3.0 at line 439
TIMEOUT == 3

\* What extract_last_modified does on a page source: it returns the user and date of
\* a "modified by ... on ..." note, the date of a last-modified meta tag, or None,
\* or it raises
SearchFinds == { "user_date", "meta_tag", "absent", "raises" }

\* How long the search runs: a number of seconds, or None for a search that does
\* not end
SearchDurations == { Some(d) : d \in 0..MaxSearch } \cup { None }

\* _extract_last_modified_with_timeout(content, timeout=3.0) has been called
InitSearch ==
    /\ OnlyTools
    /\ DbIdle /\ NormalizerIdle /\ CheckerIdle
    /\ search \in [ duration : SearchDurations, finds : SearchFinds ]
    /\ future = "none"
    /\ lm_pc = "call"
    /\ lm_elapsed = 0
    /\ lm_ret = NoSearchResult

\* lines 553-554: the executor is entered and the search handed to its worker thread
Submit ==
    /\ lm_pc = "call"
    /\ future' = "running"
    /\ lm_pc' = "result"
    /\ lm_elapsed' = 0
    /\ UNCHANGED << validatorVars, parserVars, crawlerVars, dbVars, normalizerVars,
                    checkerVars, search, lm_ret >>

\* The worker thread: extract_last_modified returns or raises, line 510-550
SearchEnds ==
    /\ future = "running"
    /\ search.duration.some
    /\ lm_elapsed >= search.duration.v
    /\ future' = "done"
    /\ UNCHANGED << validatorVars, parserVars, crawlerVars, dbVars, normalizerVars,
                    checkerVars, search, lm_pc, lm_elapsed,
                    lm_ret >>

\* The main thread waits: in future.result(timeout) until the timeout, and in the
\* exit of the with statement until the worker has ended
Blocked ==
    \/ lm_pc = "result" /\ future = "running" /\ lm_elapsed < TIMEOUT
    \/ lm_pc = "exit" /\ future = "running"

\* A second passes while the main thread waits and the search is not over
Tick ==
    /\ Blocked
    /\ search.duration.some => lm_elapsed < search.duration.v
    /\ lm_elapsed <= MaxSearch
    /\ lm_elapsed' = lm_elapsed + 1
    /\ UNCHANGED << validatorVars, parserVars, crawlerVars, dbVars, normalizerVars,
                    checkerVars, search, future, lm_pc,
                    lm_ret >>

\* lines 556-557 and 561-563: future.result returns what the search returned, or
\* re-raises what it raised, and None is returned
FutureResult ==
    /\ lm_pc = "result"
    /\ future = "done"
    /\ lm_ret' = IF search.finds = "raises"
                 THEN [ how |-> "error", info |-> "absent" ]
                 ELSE [ how |-> "result", info |-> search.finds ]
    /\ lm_pc' = "exit"
    /\ UNCHANGED << validatorVars, parserVars, crawlerVars, dbVars, normalizerVars,
                    checkerVars, search, future, lm_elapsed >>

\* lines 558-560: future.result raises FutureTimeoutError, None is to be returned
FutureTimeout ==
    /\ lm_pc = "result"
    /\ future = "running"
    /\ lm_elapsed >= TIMEOUT
    /\ lm_ret' = [ how |-> "timeout", info |-> "absent" ]
    /\ lm_pc' = "exit"
    /\ UNCHANGED << validatorVars, parserVars, crawlerVars, dbVars, normalizerVars,
                    checkerVars, search, future, lm_elapsed >>

\* line 553, the end of the with statement: ThreadPoolExecutor.__exit__ calls
\* shutdown(wait=True), which joins the worker thread; then the return takes place
ExecutorExit ==
    /\ lm_pc = "exit"
    /\ future = "done"
    /\ lm_pc' = "returned"
    /\ UNCHANGED << validatorVars, parserVars, crawlerVars, dbVars, normalizerVars,
                    checkerVars, search, future, lm_elapsed,
                    lm_ret >>

NextSearch ==
    \/ Submit
    \/ SearchEnds
    \/ Tick
    \/ FutureResult
    \/ FutureTimeout
    \/ ExecutorExit

SpecSearch == InitSearch /\ [][NextSearch]_vars

-----------------------------------------------------------------------------
(* Properties *)

Max(a, b) == IF a > b THEN a ELSE b

Last(q) == q[Len(q)]

\* The manifest indices k .. min(n, k + b) - 1 in order (k .. n - 1 without b)
ExpectedIndices(n, k, b) ==
    LET hi == IF b.some THEN Min(n, k + b.v) ELSE n
    IN  [ j \in 1..Max(hi - k, 0) |-> k + j - 1 ]

PassingDetails ==
    { k \in DOMAIN results.details :
        /\ results.details[k].relevance_score >= RELEVANCE_THRESHOLD
        /\ results.details[k].currency_score >= CURRENCY_THRESHOLD }

\* C1, detail entries: an entry is marked validated exactly when its relevance score
\* is at least 0.80 and its currency score at least 1.0, and outside the handling of
\* a record the validated count is the number of such entries.
C1_DetailsMarked ==
    /\ \A k \in DOMAIN results.details :
         results.details[k].validated <=> k \in PassingDetails
    /\ pc \in { "loop", "pre_try", "rate_limit", "await", "check_response", "done",
                "killed" }
         => results.validated = Cardinality(PassingDetails)

\* C1, the count: when both scores of a record were obtained, the validated count
\* goes up by one exactly when relevance >= 0.80 and currency >= 1.0, and stays as
\* it is otherwise.
C1_Counted ==
    (pc = "check_response" /\ pc' \in { "save", "details" })
      => /\ scores'[1].some /\ scores'[2].some
         /\ IF scores'[1].v >= RELEVANCE_THRESHOLD /\ scores'[2].v >= CURRENCY_THRESHOLD
            THEN results'.validated = results.validated + 1 /\ pc' = "save"
            ELSE results'.validated = results.validated /\ pc' = "details"

\* C1: a record whose two scores were obtained is counted as validated, and its
\* detail entry marked validated, if and only if relevance_score >= 0.80 and
\* currency_score >= 1.0; (0.80, 1.0) passes, (0.79, 1.0) and (0.95, 0.99) fail.
C1_ThresholdPolicy == [](C1_DetailsMarked) /\ [][C1_Counted]_vars

\* C1 witness: a run that scored (0.80, 1.0), (0.79, 1.0) and (0.95, 0.99): one
\* record validated, the other two not.
C1_Witness ==
    /\ results.validated = 1
    /\ \E a, b, c \in DOMAIN results.details :
         /\ results.details[a].relevance_score = 80
         /\ results.details[a].currency_score = 100
         /\ results.details[a].validated
         /\ results.details[b].relevance_score = 79
         /\ results.details[b].currency_score = 100
         /\ ~results.details[b].validated
         /\ results.details[c].relevance_score = 95
         /\ results.details[c].currency_score = 99
         /\ ~results.details[c].validated

RowsOf(st, url) == { k \in DOMAIN st : st[k].url = url }

\* C2, the store: no two rows share a url.
C2_OnePerUrl ==
    \A j, k \in DOMAIN store : store[j].url = store[k].url => j = k

\* C2, one save of a passing page: when it is counted as saved, the store holds
\* exactly one row for the page's url, carrying this validation's title, hash, date,
\* scores, metadata and timestamp, and every other row is as before; with a store
\* that does not fail, every passing page that has a url is counted as saved.
C2_Upsert ==
    (pc = "save" /\ pc' = "details")
      => LET pg == current_page
         IN  /\ results'.saved = results.saved + 1
                  => /\ pg.url # ""
                     /\ Cardinality(RowsOf(store', pg.url)) = 1
                     /\ \A k \in RowsOf(store', pg.url) :
                          /\ store'[k].title = pg.title
                          /\ store'[k].content_hash = << "sha256", pg.content >>
                          /\ store'[k].last_modified = pg.formatted_date
                          /\ store'[k].ctx_relevance_score = scores[1].v
                          /\ store'[k].ctx_currency_score = scores[2].v
                          /\ store'[k].page_metadata = pg.id
                          /\ store'[k].validation_timestamp = db_clock'
                          /\ \A m \in DOMAIN store :
                               store[m].validation_timestamp < db_clock'
                     /\ \A k \in DOMAIN store :
                          store[k].url # pg.url => store'[k] = store[k]
                     /\ Len(store') =
                          Len(store) + (IF RowsOf(store, pg.url) = { } THEN 1 ELSE 0)
             /\ results'.saved # results.saved + 1
                  => store' = store /\ results'.errors = results.errors + 1
             /\ (env.db_faults = { FALSE } /\ pg.url # "")
                  => results'.saved = results.saved + 1

\* C2: the store holds at most one entry per url; a passing validation of a url the
\* store already holds leaves exactly one entry for it, with the scores, content
\* hash, metadata and validation timestamp of that later validation, and is counted
\* as saved like the first.
C2_UpsertByUrl == [](C2_OnePerUrl) /\ [][C2_Upsert]_vars

\* C2 witness: pages 1 and 2 share a url and both passed: one row, holding page 2's
\* values and the second save's timestamp, and two saves counted.
C2_Witness ==
    /\ results.saved = 2
    /\ Len(store) = 1
    /\ store[1].url = "u1"
    /\ store[1].title = 2
    /\ store[1].content_hash = << "sha256", 2 >>
    /\ store[1].validation_timestamp = 2

\* C3 as claimed: a finished run has handled exactly the indices
\* k .. min(n, k + b) - 1 (k .. n - 1 without a batch size), once each and in order,
\* and reports skipped = k.
C3_ProcessesRange ==
    pc = "done" /\ caller # "none"
      => /\ handled = ExpectedIndices(Len(metadata), start_index, batch_size)
         /\ results.processed = Len(handled)
         /\ results.skipped = start_index

\* C4 as claimed: once an interrupt has ended the loop, after a first record was taken
\* up and before the last one was fully handled, the progress file written by this
\* run names the first record not yet fully handled.
C4_InterruptCheckpoint ==
    (pc \in { "interrupted", "killed" } /\ Len(handled) >= 1
       /\ i < TotalPages(Len(metadata), start_index, batch_size))
      => /\ progress_file.exists
         /\ progress_file.fresh
         /\ progress_file.next_index = current_index

\* C5 as claimed: whenever the run has processed a multiple of 10 records, the
\* progress file written by this run names start_index + processed as next_index.
C5_PeriodicCheckpoint ==
    (pc = "loop" /\ results.processed > 0 /\ results.processed % CHECKPOINT_EVERY = 0)
      => /\ progress_file.exists
         /\ progress_file.fresh
         /\ progress_file.next_index = start_index + results.processed

\* What the specification calls transient: no response (timeout, connection error),
\* HTTP 429, HTTP status >= 500
Transient(tag) == tag = 0 \/ tag = 429 \/ tag >= 500

\* C6 as claimed: a request that fails transiently before the last attempt is followed
\* by a backoff sleep and another attempt.
C6_TransientStep ==
    (pc = "await" /\ Len(outcomes') = Len(outcomes) + 1
       /\ Transient(Last(outcomes')) /\ Len(outcomes') < MAX_RETRIES)
      => /\ pc' = "rate_limit"
         /\ Len(sleeps') = Len(sleeps) + 1

C6_TransientRetried == [][C6_TransientStep]_vars

\* C7: a call whose first k requests (k < 3) got HTTP 429 and whose next request
\* succeeded returns the response after exactly k backoff sleeps, of 2 s then 4 s.
C7_BackoffSleeps ==
    (pc = "check_response" /\ Len(outcomes) >= 1 /\ Last(outcomes) = 200
       /\ \A j \in 1..(Len(outcomes) - 1) : outcomes[j] = 429)
      => /\ response_data.some
         /\ Len(outcomes) <= MAX_RETRIES
         /\ Len(sleeps) = Len(outcomes) - 1
         /\ \A j \in DOMAIN sleeps : sleeps[j] = IF j = 1 THEN 2 ELSE 4

\* C7 witness: 429, 429, success: the response is returned after sleeps of 2 s and 4 s.
C7_Witness ==
    /\ pc = "check_response"
    /\ outcomes = << 429, 429, 200 >>
    /\ sleeps = << 2, 4 >>
    /\ response_data.some

NonRetryable == { 401, 404, 422 }

\* C8, the call: no request follows a 401, 404 or 422 response; the call returns
\* failure with no backoff sleep after that response, so a first response of that
\* kind means one request and no sleep at all.
C8_NoRetry ==
    /\ pc \in { "rate_limit", "await" }
         => \A j \in DOMAIN outcomes : outcomes[j] \notin NonRetryable
    /\ (pc = "check_response" /\ Len(outcomes) >= 1 /\ Last(outcomes) \in NonRetryable)
         => /\ ~response_data.some
            /\ Len(sleeps) = Len(outcomes) - 1
            /\ outcomes[1] \in NonRetryable => Len(outcomes) = 1 /\ sleeps = << >>

\* C8, the caller: the record of a call that failed is counted as an error and the
\* loop goes to the next record.
C8_CountedAsError ==
    (pc = "check_response" /\ Len(outcomes) >= 1 /\ Last(outcomes) \in NonRetryable
       /\ pc' # "interrupted" /\ pc' # pc)
      => /\ results'.errors = results.errors + 1
         /\ results'.validated = results.validated
         /\ results'.saved = results.saved
         /\ results'.details = results.details
         /\ pc' = "loop"
         /\ i' = i + 1

\* C8: on HTTP 401, 404 or 422 the scoring call returns failure at once - one request
\* for the record, no backoff sleep - and the caller counts the record as an error.
C8_NonRetryable == [](C8_NoRetry) /\ [][C8_CountedAsError]_vars

\* C8 witness: the only request of a record was answered 401 and the call has returned.
C8_Witness ==
    /\ pc = "check_response"
    /\ outcomes = << 401 >>
    /\ sleeps = << >>
    /\ ~response_data.some

\* Requests sent so far for the record being handled
RequestsOfRecord == Len(outcomes) + (IF pc = "await" THEN 1 ELSE 0)

\* How far the run is from its end: the pages left, then the attempts left for the
\* page being handled, then the steps left of the attempt
LocalRank ==
    CASE pc = "loop"           -> 2 * MAX_RETRIES + 6
      [] pc = "pre_try"        -> 2 * MAX_RETRIES + 5
      [] pc = "rate_limit"     -> 2 * (MAX_RETRIES - attempt) + 3
      [] pc = "await"          -> 2 * (MAX_RETRIES - attempt) + 2
      [] pc = "check_response" -> 3
      [] pc = "save"           -> 2
      [] pc = "details"        -> 1
      [] OTHER                 -> 0

Rank ==
    LET w == 2 * MAX_RETRIES + 7
    IN  CASE pc \in Terminal    -> 0
          [] pc = "start"      -> (Len(metadata) + 1) * w + 1
          [] pc = "main_setup" -> (Len(metadata) + 1) * w
          [] OTHER ->
               (TotalPages(Len(metadata), start_index, batch_size) - i) * w + LocalRank

\* C9, the bound: at most MAX_RETRIES requests are sent for a record, a call whose
\* requests all failed returns no data, each record is handled at most once, and
\* a run that has not ended can take a step.
C9_Bounded ==
    /\ RequestsOfRecord <= MAX_RETRIES
    /\ Len(handled) <= Len(metadata)
    /\ \A j, k \in DOMAIN handled : j < k => handled[j] < handled[k]
    /\ (pc = "check_response" /\ \A j \in DOMAIN outcomes : outcomes[j] # 200
          /\ outcomes # << >>)
         => ~response_data.some
    /\ Rank >= 0
    /\ \/ pc \in Terminal
       \/ pc = "check_response"      \* CheckResponse has no guard but its position
       \/ ENABLED (LoopNext \/ PreTry \/ RateLimitAndSend \/ Response
                   \/ Save \/ Details
                   \/ MainTestSinglePage \/ MainSetup
                   \/ CallValidateAllPages)

\* C9, progress: every step of the program brings the run nearer to its end (only
\* the passing of time leaves the distance as it is), and after a call that returned
\* no data the caller adds one error and goes to the next record.
C9_Progress ==
    /\ Rank' < Rank \/ (Rank' = Rank /\ pc' = pc /\ i' = i /\ attempt' = attempt)
    /\ (pc = "check_response" /\ ~response_data.some /\ pc' # "interrupted" /\ pc' # pc)
         => /\ results'.errors = results.errors + 1
            /\ pc' = "loop"
            /\ i' = i + 1

\* C9: a scoring call never sends more than MAX_RETRIES (3) requests for a record;
\* when every attempt fails it returns failure, the caller adds an error and moves
\* on; the run over n records ends, after at most 3 requests for each of them.
C9_BoundedRetries == [](C9_Bounded) /\ [][C9_Progress]_vars

\* C9 witness: three requests of one record failed (429, no response, 429) and the
\* call has returned no data.
C9_Witness ==
    /\ pc = "check_response"
    /\ outcomes = << 429, 0, 429 >>
    /\ ~response_data.some
    /\ results.errors = 0

\* C10 as claimed: two consecutive outbound requests to the scoring endpoint are at
\* least REQUEST_DELAY apart.
C10_MinInterval == gap = -1 \/ gap >= REQUEST_DELAY

-----------------------------------------------------------------------------
(* C11 *)

\* The reply in response_data is a JSON object with numbers as its two scores
ReplyHasScores ==
    /\ response_data.some
    /\ response_data.body.has_message
    /\ Len(response_data.body.content) = 1
    /\ response_data.body.content[1].t = "object"
    /\ response_data.body.content[1].rel.k = "num"
    /\ response_data.body.content[1].cur.k = "num"

ReplyRel == response_data.body.content[1].rel.v

ReplyCur == response_data.body.content[1].cur.v

InRange(v) == v >= 0 /\ v <= 100

\* The step of validate_all_pages that reads the reply of a record
ReadsReply == pc = "check_response" /\ pc' # pc /\ pc' # "interrupted"

\* C11, discarded: a reply with a score outside [0, 1] makes its record an error;
\* the record is not validated, not saved and gets no detail entry.
C11_Discarded ==
    (ReadsReply /\ ReplyHasScores /\ (~InRange(ReplyRel) \/ ~InRange(ReplyCur)))
      => /\ pc' = "loop"
         /\ scores' = << None, None >>
         /\ results'.errors = results.errors + 1
         /\ results'.validated = results.validated
         /\ results'.saved = results.saved
         /\ results'.details = results.details
         /\ store' = store

\* C11, accepted: scores inside [0, 1], the bounds 0 and 1 among them, are taken
\* as they are.
C11_Accepted ==
    (ReadsReply /\ ReplyHasScores /\ InRange(ReplyRel) /\ InRange(ReplyCur))
      => /\ scores' = << Some(ReplyRel), Some(ReplyCur) >>
         /\ pc' \in { "save", "details" }

\* C11, kept: no score outside [0, 1] is held for the record being handled, in a
\* detail entry or in the store.
C11_NoneKept ==
    /\ \A k \in 1..2 : scores[k].some => InRange(scores[k].v)
    /\ \A k \in DOMAIN results.details :
         /\ InRange(results.details[k].relevance_score)
         /\ InRange(results.details[k].currency_score)
    /\ \A k \in DOMAIN store :
         /\ InRange(store[k].ctx_relevance_score)
         /\ InRange(store[k].ctx_currency_score)

\* C11: a relevance or currency score outside [0, 1] in the reply is discarded,
\* never clamped and never kept - its record is not validated, not saved and gets
\* no detail entry - and the bounds 0 and 1 are accepted.
C11_OutOfRangeDiscarded ==
    [](C11_NoneKept) /\ [][C11_Discarded]_vars /\ [][C11_Accepted]_vars

\* C11 witness: a record scored 0 and 1 has its detail entry, and the reply of the
\* next record, with a relevance score above 1, is about to be read.
C11_Witness ==
    /\ pc = "check_response"
    /\ ReplyHasScores /\ ReplyRel = 101 /\ ReplyCur = 100
    /\ \E k \in DOMAIN results.details :
         /\ results.details[k].relevance_score = 0
         /\ results.details[k].currency_score = 100

-----------------------------------------------------------------------------
(* C12, C13 *)

\* The reply text without the code fence around it, when it has one: three
\* backticks, with or without the tag json, before the payload and three after it
Unfenced(s) ==
    LET core == Strip(s)
    IN  IF /\ Len(core) >= 2
           /\ core[1].t \in { "fence_json", "fence" }
           /\ core[Len(core)].t = "fence"
        THEN Strip(SubSeq(core, 2, Len(core) - 1))
        ELSE core

\* The reply is a single JSON value of one of the types ts, a fence around it or not
IsJsonOf(s, ts) == Len(Unfenced(s)) = 1 /\ Unfenced(s)[1].t \in ts

Uncoercible(x) == x.k \in { "badstr", "list" }

\* Malformed replies: text that is not JSON, JSON that is not an object, an object
\* with a score that is no number
Malformed(s) ==
    \/ ~IsJsonOf(s, JsonTypes)
    \/ IsJsonOf(s, JsonTypes \ { "object" })
    \/ /\ IsJsonOf(s, { "object" })
       /\ Uncoercible(Unfenced(s)[1].rel) \/ Uncoercible(Unfenced(s)[1].cur)

\* C12: for every malformed reply - text that is not JSON, JSON whose top-level
\* value is not an object, an object whose score values cannot be coerced to a
\* number - _parse_agent_response returns (absent, absent) and raises no exception.
C12_MalformedYieldsAbsent ==
    (parse_ret.done /\ Malformed(parse_arg))
      => /\ parse_ret.out.raised = ""
         /\ parse_ret.out.value = << None, None >>

\* The reply is a JSON object, a fence around it or not, whose two scores are
\* numbers in [0, 1]
WellFormed(s) ==
    /\ IsJsonOf(s, { "object" })
    /\ Unfenced(s)[1].rel.k = "num" /\ InRange(Unfenced(s)[1].rel.v)
    /\ Unfenced(s)[1].cur.k = "num" /\ InRange(Unfenced(s)[1].cur.v)

\* C13: for every reply text that is, after removing an optional surrounding fence
\* (with or without the json tag), a JSON object with relevance_score and
\* currency_score in [0, 1], the parse step returns exactly those two scores,
\* whatever other keys or string values the object contains.
C13_ScoresReturned ==
    (parse_ret.done /\ WellFormed(parse_arg))
      => /\ parse_ret.out.raised = ""
         /\ parse_ret.out.value = << Some(Unfenced(parse_arg)[1].rel.v),
                                     Some(Unfenced(parse_arg)[1].cur.v) >>

-----------------------------------------------------------------------------
(* C14 *)

\* C14, a failing record: when the request of a record failed, its reply cannot be
\* parsed, lacks a score or raises an exception, the error count goes up by one,
\* nothing else is counted and the loop goes to the next record.
C14_FailureCounted ==
    (ReadsReply /\ Verdict(response_data) = "error")
      => /\ results' = [ results EXCEPT !.errors = @ + 1 ]
         /\ pc' = "loop"
         /\ i' = i + 1

\* C14, a failing save: when the store did not take the record, the error count
\* goes up by one and the handling of the record goes on to its detail entry.
C14_SaveFailureCounted ==
    (pc = "save" /\ pc' # pc /\ pc' # "interrupted" /\ results'.saved = results.saved)
      => /\ results' = [ results EXCEPT !.errors = @ + 1 ]
         /\ store' = store
         /\ pc' = "details"

\* C14, the run goes on: the loop is left only at the end of the range or by an
\* interrupt, and a run that reached the end of the range has handled every record
\* of it, in order.
C14_EndsAtEndOfRange ==
    /\ (pc \in InTry \cup OutsideTry /\ pc' \in Terminal)
         => \/ pc' \in { "interrupted", "killed" }
            \/ /\ pc = "loop" /\ pc' = "done"
               /\ i = TotalPages(Len(metadata), start_index, batch_size)
    /\ pc' = "done"
         => handled' = [ j \in 1..TotalPages(Len(metadata), start_index, batch_size)
                           |-> start_index + j - 1 ]

\* C14: no single record's failure terminates validate_all_pages - a failed request,
\* an unparsable reply, an absent score, a failed save or another exception raised
\* while the record is handled only adds to the error count, and the later records
\* of the range are still processed.
C14_FailureIsolated ==
    /\ [][C14_FailureCounted]_vars
    /\ [][C14_SaveFailureCounted]_vars
    /\ [][C14_EndsAtEndOfRange]_vars

\* C14 witness: a run over three records has ended; the first two records failed,
\* the third was handled after them and has its detail entry.
C14_Witness ==
    /\ pc = "done"
    /\ results.processed = 3
    /\ results.errors = 2
    /\ Len(results.details) = 1
    /\ results.details[1].index = 2

-----------------------------------------------------------------------------
(* C15 *)

\* C15, the frame of a step: the store changes only in the save of a record that
\* passed both thresholds; then no row is removed or re-keyed, the rows of other
\* urls stay as they are, and at most one row, of the record's url, is added.
C15_Frame ==
    store' # store
      => /\ pc = "save"
         /\ scores[1].some /\ scores[2].some
         /\ scores[1].v >= RELEVANCE_THRESHOLD /\ scores[2].v >= CURRENCY_THRESHOLD
         /\ Len(store') \in { Len(store), Len(store) + 1 }
         /\ \A k \in DOMAIN store :
              /\ store'[k].url = store[k].url
              /\ store[k].url # current_page.url => store'[k] = store[k]
         /\ \A k \in DOMAIN store' \ DOMAIN store : store'[k].url = current_page.url

\* C15, records that do not pass: the handling of a record that errors or misses a
\* threshold never comes to the save.
C15_SaveOnlyPassing ==
    pc = "save" => /\ scores[1].some /\ scores[2].some
                   /\ MeetsThresholds(scores[1].v, scores[2].v)

\* C15: during a validation run the store changes only when a record passes both
\* thresholds, and then only the entry of that record's url is inserted or updated;
\* records that error or miss a threshold leave the store as it is, also when it
\* holds an entry for their url, and no entry is ever removed.
C15_StoreFrame == [](C15_SaveOnlyPassing) /\ [][C15_Frame]_vars

\* C15 witness: over a store holding entries for two urls, the first record passed
\* and updated the entry of its url, the second record, of the same url, missed a
\* threshold and a run has ended: the other url's entry is the old one and the
\* updated entry still holds the first record's values.
C15_Witness ==
    /\ pc = "done"
    /\ Len(store) = 2
    /\ store[1] = SeedStore[1]
    /\ store[2].page_metadata = 1 /\ store[2].validation_timestamp = 1
    /\ Len(results.details) = 2
    /\ results.details[1].validated /\ ~results.details[2].validated

-----------------------------------------------------------------------------
(* C16, C17, C18: tree discovery *)

\* C16: the (url, title) pairs of tree discovery hold each url at most once - also
\* for trees in which a page is linked from several nodes and for trees whose nested
\* nodes are already in the list of items that is expanded.
C16_NoDuplicateUrls ==
    \A j, k \in DOMAIN page_data : page_data[j].href = page_data[k].href => j = k

\* C17: every url of the discovery output is under the origin of the site; a link to
\* another origin is discarded, also when the base URL occurs in its path or query
\* or is a prefix of its host name.
C17_OwnOriginOnly ==
    \A k \in DOMAIN page_data : page_data[k].href.origin = BaseUrl

\* The nodes that expansion gets to: the child list of every node above them is in
\* the document from the start or is shown by a click on an icon toggle
Reached(tree, d) ==
    \A a \in Ancestors(tree.parent, d) \ { 0 } :
      a \in tree.loaded \/ tree.toggle[a] = "icon"

\* The page links in depth-first pre-order, which is the document order of the
\* nodes: each node's page link, then those of its children, before its next sibling
PreOrderLinks(tree) ==
    Flatten([ d \in DOMAIN tree.parent |->
                IF Reached(tree, d) THEN ItemData(PageLink(tree, d)) ELSE << >> ])

\* C18: _expand_and_scrape returns the page links in depth-first pre-order: a node
\* with one link gives that link, a node with a toggle gives its second link, then
\* the links of its children by recursive expansion, all before the links of its
\* next sibling.
C18_PreOrder ==
    crawl_pc \in { "pages", "no_pages", "returned" }
      => page_data = PreOrderLinks(site.tree)

-----------------------------------------------------------------------------
(* C19, C20: the crawl *)

\* The page fails: it cannot be fetched or its files cannot be written
PageFails(o, content) ==
    \/ o.fetch = "fails"
    \/ o.save = "html_fails"
    \/ o.save = "md_fails" /\ content # << >>

\* The hrefs of the first j pages of page_data that gave a record, in order
RECURSIVE Succeeded(_)
Succeeded(j) ==
    IF j = 0 THEN << >>
    ELSE IF attempted[j].ok THEN Append(Succeeded(j - 1), page_data[j].href)
    ELSE Succeeded(j - 1)

\* C19, one page: a page that fails adds no record and the loop goes on; a page
\* that does not fail, a page whose conversion raised among them, adds its own
\* record and nothing else.
C19_OnePage ==
    page_i' = page_i + 1
      => LET o == attempted'[page_i'].outcome
             pg == page_data[page_i']
         IN  /\ crawl_pc' = "pages"
             /\ Len(attempted') = page_i'
             /\ PageFails(o, MarkdownContent(pg.href.page, pg.title, o))
                  => ~attempted'[page_i'].ok /\ scraped_content' = scraped_content
             /\ ~PageFails(o, MarkdownContent(pg.href.page, pg.title, o))
                  => /\ attempted'[page_i'].ok
                     /\ Len(scraped_content') = Len(scraped_content) + 1
                     /\ SubSeq(scraped_content', 1, Len(scraped_content)) = scraped_content
                     /\ scraped_content'[Len(scraped_content')].url = pg.href
                     /\ scraped_content'[Len(scraped_content')].title = pg.title

\* C19, the end: a crawl that found pages ends only after every page was attempted,
\* and then the manifest is written and holds the pages that succeeded, in
\* discovery order.
C19_ManifestWritten ==
    /\ crawl_pc = "pages" => Len(attempted) = page_i /\ page_i <= Len(page_data)
    /\ crawl_pc = "returned"
         => /\ page_i = Len(page_data)
            /\ Len(attempted) = Len(page_data)
            /\ metadata_json.written
            /\ [ k \in DOMAIN metadata_json.records |-> metadata_json.records[k].url ]
                 = Succeeded(Len(page_data))

\* C19 as stated: a page on which fetching, normalizing or saving failed is
\* skipped, it adds no record.
C19_FailedPageSkipped ==
    [][ page_i' = page_i + 1
          => LET o == attempted'[page_i'].outcome
                 pg == page_data[page_i']
             IN  (PageFails(o, MarkdownContent(pg.href.page, pg.title, o))
                    \/ o.normalizer = "raises")
                   => scraped_content' = scraped_content ]_vars

\* C19: a failure while fetching or saving a single page of the crawl is caught and
\* only that page is skipped: it is not in the manifest.  A failure of the normalizer
\* is caught too, and the page is kept with the content of the fallback chain.
\* Every later page is still attempted, and the manifest is written at the end with
\* the pages that succeeded, in discovery order.
C19_PageFailureIsolated == [](C19_ManifestWritten) /\ [][C19_OnePage]_vars

\* C19 witness: of three pages the first could not be fetched and the second could
\* not be saved; the third, on which the normalizer raised, was scraped after them
\* and is the manifest's only record.
C19_Witness ==
    /\ crawl_pc = "returned"
    /\ Len(page_data) = 3
    /\ attempted[1].outcome.fetch = "fails"
    /\ attempted[2].outcome.save = "html_fails"
    /\ attempted[3].outcome.normalizer = "raises"
    /\ attempted[3].ok
    /\ Len(metadata_json.records) = 1
    /\ metadata_json.records[1].url = page_data[3].href

\* C20: every record of the manifest has content that is not empty: with a title the
\* fallback chain (normalizer, visible text, title) gives content, and a record
\* without content is dropped, not persisted.
C20_ContentNeverEmpty ==
    /\ \A k \in DOMAIN scraped_content : scraped_content[k].content # << >>
    /\ \A k \in DOMAIN metadata_json.records : metadata_json.records[k].content # << >>

-----------------------------------------------------------------------------
(* C21: the timeout of the last-modified search *)

\* C21: when the search has not ended at the timeout of 3 s,
\* _extract_last_modified_with_timeout gives it up and returns None without
\* waiting for the search worker: the call returns no later than at the timeout,
\* and a search that runs on cannot hold it.
C21_TimeoutAbandons ==
    lm_ret.how = "timeout"
      => /\ lm_ret.info = "absent"
         /\ lm_pc = "returned" => lm_elapsed <= TIMEOUT
         /\ lm_pc = "exit" => ENABLED ExecutorExit

-----------------------------------------------------------------------------
(* C22: the files of a crawl *)

\* C22: within one crawl run no two pages are written to the same file path: the
\* sequence id at the front of the file names differs from page to page, so pages
\* whose cleaned titles are the same do not overwrite one another.
C22_NoOverwrite ==
    \A j, k \in DOMAIN files :
      files[j].path = files[k].path => files[j].page = files[k].page

-----------------------------------------------------------------------------
(* C23: the store read back *)

\* C23: after add_validated_url succeeded, get_validated_url of the same url
\* returns the entry stored for that url, and the title of that entry reads as the
\* title that was written.
C23_ReadBack ==
    /\ (db_pc \in { "read", "done" } /\ retrieved.some)
         => retrieved.row.url = url_data.v.url
    /\ title_read.done
         => title_read.raised = "" /\ title_read.value = url_data.v.title

-----------------------------------------------------------------------------
(* C24: blank lines in the text of html_to_markdown *)

\* The longest run of blank lines of a text: lines of white space only, each ended
\* by a newline
RECURSIVE BlankRunFrom(_, _, _, _)
BlankRunFrom(t, k, run, blank) ==
    IF k > Len(t) THEN 0
    ELSE IF t[k] = NL
    THEN LET r == IF blank THEN run + 1 ELSE 0
         IN  Max(r, BlankRunFrom(t, k + 1, r, TRUE))
    ELSE BlankRunFrom(t, k + 1, run, blank /\ t[k] = SP)

BlankRun(t) == BlankRunFrom(t, 1, 0, TRUE)

\* C24: for every input, the text that html_to_markdown returns, after the
\* collapse of newlines and the rewriting of one-cell tables, has no run of three
\* or more blank lines.
C24_NoThreeBlankLines == md_ret.done => BlankRun(md_ret.out) < 3

\* C24 witness: a text with three blank lines behind a one-cell table; the run is
\* collapsed, the table rewritten, and two blank lines follow the rewritten table.
C24_Witness ==
    /\ md_ret.done
    /\ BlankRun(md_arg) >= 3
    /\ HasPrefix(md_arg, TableOpen)
    /\ HasPrefix(md_ret.out, << "bt", "x", "bt", NL, NL, NL, "x" >>)

-----------------------------------------------------------------------------
(* C25: the politeness sleep of the crawl *)

\* C25: in the loop over the discovered pages a sleep of at least 2 seconds lies
\* between the fetch of a page and the fetch of the next one, whether the earlier
\* page was scraped or was skipped after a failure.
C25_SleepBetweenFetches ==
    crawl_pc \in { "pages", "returned" }
      => \A k \in DOMAIN attempted : k < Len(attempted) => attempted[k].slept >= 2

-----------------------------------------------------------------------------
(* C26: expansion that fails *)

\* The expansion of node k fails: the click on its toggle raises, or the click
\* shows no child list
FailsToExpand(tree, k) ==
    \/ tree.toggle[k] = "stuck"
    \/ tree.toggle[k] = "icon" /\ ~HasChildren(tree.parent, k)

\* The positions of page_data that hold the page link of node k
PositionsOf(tree, k) ==
    { p \in DOMAIN page_data : << page_data[p] >> = ItemData(PageLink(tree, k)) }

\* C26: when the expansion of a node fails, the page link of the node stays in the
\* output and the traversal goes on with the siblings of the node: their links
\* follow in the output.
C26_ExpansionFailureKept ==
    crawl_pc \in { "pages", "no_pages", "returned" }
      => \A k \in DOMAIN site.tree.parent :
           (Reached(site.tree, k) /\ FailsToExpand(site.tree, k))
             => /\ ValidLink(PageLink(site.tree, k)) => PositionsOf(site.tree, k) # { }
                /\ \A sib \in DOMAIN site.tree.parent :
                     ( /\ sib > k
                       /\ site.tree.parent[sib] = site.tree.parent[k]
                       /\ ValidLink(PageLink(site.tree, sib)) )
                       => \E q \in PositionsOf(site.tree, sib) :
                            \A p \in PositionsOf(site.tree, k) : p < q

\* C26 witness: the click on the toggle of the first node raised; its link and the
\* link of its sibling are the output, the child it did not show is not.
C26_Witness ==
    /\ crawl_pc = "pages"
    /\ Len(site.tree.parent) = 3
    /\ site.tree.toggle[1] = "stuck"
    /\ site.tree.parent[2] = 1
    /\ site.tree.parent[3] = 0
    /\ Len(page_data) = 2
    /\ page_data[1].href.page = 1
    /\ page_data[2].href.page = 3

-----------------------------------------------------------------------------
(* C27: the detail entries *)

\* C27, the step: the entry of the record at hand is appended when its two scores
\* were obtained, after the save if there was one; it holds the record's position
\* in the manifest, its title and id and the two scores.  No other step changes
\* the entries.
C27_Appended ==
    IF pc = "details" /\ pc' = "loop"
    THEN /\ scores[1].some /\ scores[2].some
         /\ Len(results'.details) = Len(results.details) + 1
         /\ SubSeq(results'.details, 1, Len(results.details)) = results.details
         /\ LET entry == results'.details[Len(results'.details)]
            IN  /\ entry.index = start_index + i
                /\ entry.title = metadata[start_index + i + 1].title
                /\ entry.id = metadata[start_index + i + 1].id
                /\ entry.relevance_score = scores[1].v
                /\ entry.currency_score = scores[2].v
                /\ entry.validated <=> (scores[1].v >= RELEVANCE_THRESHOLD
                                          /\ scores[2].v >= CURRENCY_THRESHOLD)
    ELSE /\ results'.details = results.details
         /\ (pc = "save" /\ pc' \notin Terminal) => pc' \in { "save", "details" }
         /\ (pc = "check_response" /\ scores'[1].some /\ scores'[2].some)
              => pc' \in { "save", "details" }

\* C27, the entries: they are in processing order, no record has two, and between
\* two records there is one entry for every record handled so far whose scores
\* were obtained: every record but those counted as an error for another reason
\* than a failed save.
C27_OnePerScoredRecord ==
    /\ \A j, k \in DOMAIN results.details :
         j < k => results.details[j].index < results.details[k].index
    /\ \A k \in DOMAIN results.details :
         \E h \in DOMAIN handled : handled[h] = results.details[k].index
    /\ pc \in { "loop", "pre_try", "done" }
         => Len(results.details)
              = results.processed - (results.errors - (results.validated - results.saved))

\* C27: for every record whose two scores were obtained exactly one detail entry
\* is appended, whether the record passed or missed the thresholds and whether or
\* not its save succeeded; its index is the record's position in the manifest, and
\* the entries are in processing order.
C27_DetailPerRecord == [](C27_OnePerScoredRecord) /\ [][C27_Appended]_vars

\* C27 witness: a run over three records ended; one passed and was saved, one
\* passed and could not be saved, one missed; each has its entry.
C27_Witness ==
    /\ pc = "done"
    /\ Len(results.details) = 3
    /\ results.validated = 2
    /\ results.saved = 1
    /\ results.errors = 1
    /\ \E k \in DOMAIN results.details : ~results.details[k].validated

-----------------------------------------------------------------------------
(* C28: records without breadcrumbs *)

\* The file holds records that are well-formed, some of them with an empty
\* breadcrumb trail
WellFormedButBreadcrumbs(file) ==
    /\ file.kind = "list"
    /\ file.entries # << >>
    /\ \A k \in DOMAIN file.entries :
         /\ file.entries[k].breadcrumbs \in { "empty", "ok" }
         /\ [ file.entries[k] EXCEPT !.breadcrumbs = "ok" ] = CrawledEntry

\* C28: a record with an empty breadcrumb trail is a valid record: the crawl writes
\* it with empty breadcrumbs, and validate_metadata_structure returns True for a
\* manifest whose records are well-formed but for their empty breadcrumbs.
C28_EmptyBreadcrumbsAccepted ==
    (vm_ret.done /\ WellFormedButBreadcrumbs(vm_arg)) => vm_ret.out

-----------------------------------------------------------------------------
(* The counters of a checkpoint *)

\* C29: in every checkpoint written by validate_all_pages, periodic or on
\* interrupt, next_index = results.skipped + results.processed: the counters of
\* the checkpoint's results account exactly for the records before the resume
\* position
C29_CheckpointAccounts ==
    progress_file.fresh =>
        progress_file.next_index =
            progress_file.results.skipped + progress_file.results.processed

\* C30: in every reachable state of a validation run saved <= validated <=
\* processed, errors <= processed, the number of detail entries <= processed, and
\* each processed record is counted in at most one of saved and errors (so that
\* saved + errors <= processed)
C30_Counters ==
    /\ results.saved <= results.validated
    /\ results.validated <= results.processed
    /\ results.errors <= results.processed
    /\ Len(results.details) <= results.processed
    /\ results.saved + results.errors <= results.processed


====
